---- MODULE Spec2Model ----
(***************************************************************************)
(* openrpc-gen: the IR (parse/mod.rs), the fix pipeline (fix.rs) and the   *)
(* driver (main.rs).                                                       *)
(*                                                                         *)
(* A File is a record [methods, types]; types is a map from Path to        *)
(* TypeDef.  Maps are TLA+ functions whose domain is a set of paths; a     *)
(* BTreeMap iterates in key order, which is the order of AllPaths.         *)
(* A TypeRef is [kind, arg, depth]: depth counts the Array(..) wrappers    *)
(* around the innermost reference, so Array(Array(Ref(p))) is              *)
(* [kind |-> "Ref", arg |-> p, depth |-> 2].                               *)
(* Display names are sequences of one-character strings, because the       *)
(* variant stripping slices them.                                          *)
(***************************************************************************)
EXTENDS Integers, Sequences, FiniteSets, TLC

VARIABLES
    file,     \* fix(): the File being fixed (file: &mut File)
    errs,     \* fix(): let mut errs = Vec::new()
    pc,       \* fix(): the pass about to run, "done" after return, "panic" after an abort
    lastKey,  \* the key of the last entry taken from the BTreeMap the current pass iterates
    used,     \* number of configured entries consumed so far in this run
    pre,      \* the File as it was when the last step started
    step,     \* the last step: its pass, its inputs and whether it succeeded
    result,   \* fix()'s return value once pc = "done"
    mpc,      \* main(): position in main
    docs,     \* main(): the documents loaded and fixed so far
    outputs,  \* main(): the output files created so far
    status,   \* main(): "running", "ok" (Ok(())), "err" (Err(..)) or "panic"
    fixes,    \* config.fixes: the Fixes handed to fix() when it runs as one call
    deps      \* main(): let mut deps = TypeDeps::new(), the dependency graph

vars == <<file, errs, pc, lastKey, used, pre, step, result, mpc, docs, outputs, status,
          fixes, deps>>

-----------------------------------------------------------------------------
(* Bounds of the model *)

\* Configured entries (make-keyword, flatten, remove, replace, rename, tag) per run.
MaxFixes == 2

-----------------------------------------------------------------------------
(* Paths and their BTreeMap order *)

\* Every path of the model, in the byte order of Rc<str> (the order of BTreeMap<Path, _>).
AllPaths ==
    << "A", "B", "E", "E/v0", "E/v1", "E/v2", "P", "P/x", "S", "S/f0", "S/f1",
       "T", "T/type", "U", "U/g", "U/g/_anon", "U/g/_anon/h", "U/type", "Z" >>

\* Position of a path in that order; 0 for "" (no key yet).
Rank(p) == IF p = "" THEN 0 ELSE CHOOSE i \in 1..Len(AllPaths) : AllPaths[i] = p

Paths == { AllPaths[i] : i \in 1..Len(AllPaths) }

\* BTreeMap iteration: the keys of S in increasing order.
SortedPaths(S) == SelectSeq(AllPaths, LAMBDA p : p \in S)

Keys(m) == SortedPaths(DOMAIN m)

EmptyMap == [p \in {} |-> p]

\* BTreeMap::remove
MapRemove(m, k) == [p \in DOMAIN m \ {k} |-> m[p]]

\* BTreeMap::insert / BTreeMap::append: entries of other replace those of m
MapAppend(m, other) ==
    [p \in DOMAIN m \cup DOMAIN other |-> IF p \in DOMAIN other THEN other[p] ELSE m[p]]

MapPut(m, k, v) == [p \in DOMAIN m \cup {k} |-> IF p = k THEN v ELSE m[p]]

Range(s) == { s[i] : i \in 1..Len(s) }

-----------------------------------------------------------------------------
(* TypeRef (parse/mod.rs) *)

Ref(p)         == [kind |-> "Ref",         arg |-> p,  depth |-> 0]
ExternalRef(n) == [kind |-> "ExternalRef", arg |-> n,  depth |-> 0]
Keyword(v)     == [kind |-> "Keyword",     arg |-> v,  depth |-> 0]
StringTy       == [kind |-> "String",      arg |-> "", depth |-> 0]
IntegerTy      == [kind |-> "Integer",     arg |-> "", depth |-> 0]
Array(r)       == [r EXCEPT !.depth = @ + 1]

\* Option<TypeRef>::None (EnumVariant.ty, MethodResult)
NoType == [kind |-> "None", arg |-> "", depth |-> 0]

\* matches!(r, TypeRef::Ref(_)): a reference that is not wrapped in an array
IsRef(r) == r.kind = "Ref" /\ r.depth = 0

IsKeyword(r) == r.kind = "Keyword" /\ r.depth = 0

\* TypeRef::inner_path and fix.rs get_inner_ref: the set holding the innermost
\* referenced path, looking through arrays; empty for None.
inner_path(r) == IF r.kind = "Ref" THEN {r.arg} ELSE {}

-----------------------------------------------------------------------------
(* TypeDef, StructField, EnumVariant, Method (parse/mod.rs) *)

StructField(path, name, nameInJson, required, flatten, ty) ==
    [path |-> path, name |-> name, documentation |-> path, required |-> required,
     flatten |-> flatten, ty |-> ty, name_in_json |-> nameInJson]

\* name_in_json: Option<String> is <<>> (None) or <<s>> (Some(s))
EnumVariant(path, name, ty) ==
    [path |-> path, name |-> name, name_in_json |-> <<>>, documentation |-> path, ty |-> ty]

\* EnumTag
Untagged  == [kind |-> "Untagged", name |-> ""]
Normal    == [kind |-> "Normal",   name |-> ""]
Tagged(t) == [kind |-> "Tagged",   name |-> t]
\* the tag slot of a TypeDef that is not an enum
NoTag     == [kind |-> "",         name |-> ""]

StructDef(path, name, source, fields) ==
    [path |-> path, name |-> name, documentation |-> path, source |-> source,
     kind |-> "Struct", fields |-> fields, tags |-> EmptyMap,
     variants |-> EmptyMap, tag |-> NoTag, ty |-> NoType]

EnumDef(path, name, source, variants, tag) ==
    [path |-> path, name |-> name, documentation |-> path, source |-> source,
     kind |-> "Enum", fields |-> EmptyMap, tags |-> EmptyMap,
     variants |-> variants, tag |-> tag, ty |-> NoType]

AliasDef(path, name, source, ty) ==
    [path |-> path, name |-> name, documentation |-> path, source |-> source,
     kind |-> "Alias", fields |-> EmptyMap, tags |-> EmptyMap,
     variants |-> EmptyMap, tag |-> NoTag, ty |-> ty]

MethodParameter(name, ty) ==
    [name |-> name, documentation |-> name, ty |-> ty, required |-> TRUE]

\* result: Option<MethodResult>; its ty is NoType when the method is a notification
Method(name, params, resultTy) ==
    [name |-> name, documentation |-> name, params |-> params, result |-> resultTy]

-----------------------------------------------------------------------------
(* Results of a pass or of one configured entry *)

\* file: the File afterwards; errs: the errors appended; panic: the process aborted
\* (unwrap() on None, unreachable!(), a slice out of range, a stack overflow).
Done(f)        == [file |-> f, errs |-> <<>>, panic |-> FALSE]
Failed(f, e)   == [file |-> f, errs |-> <<e>>, panic |-> FALSE]
Panicked(f)    == [file |-> f, errs |-> <<>>, panic |-> TRUE]

\* One message of errs; pass is the pass whose format!() produced it.
FixError(pass, msg, path) == [pass |-> pass, msg |-> msg, path |-> path]

SetTypes(f, types) == [f EXCEPT !.types = types]

StructKeys(f) == SelectSeq(Keys(f.types), LAMBDA t : f.types[t].kind = "Struct")

\* The first element of seq satisfying P, as a set of at most one element.
First(seq, P(_)) ==
    LET hits == SelectSeq(seq, P) IN IF hits = <<>> THEN {} ELSE {hits[1]}

-----------------------------------------------------------------------------
(* Pass 1: strip_enum_variants, fixup_variants, common_prefix, common_suffix *)

UpperChars ==
    { "A", "B", "C", "D", "E", "F", "G", "H", "I", "J", "K", "L", "M",
      "N", "O", "P", "Q", "R", "S", "T", "U", "V", "W", "X", "Y", "Z" }

is_uppercase(c) == c \in UpperChars

starts_with(s, p) == Len(p) <= Len(s) /\ SubSeq(s, 1, Len(p)) = p

ends_with(s, p) == Len(p) <= Len(s) /\ SubSeq(s, Len(s) - Len(p) + 1, Len(s)) = p

\* The inner for loop of common_prefix: the candidate length reached scanning
\* reference[prefix..] from index i (1-based) up to the next word boundary.
RECURSIVE PrefixScan(_, _, _)
PrefixScan(reference, i, prefix) ==
    IF i > Len(reference) THEN Len(reference)
    ELSE IF i > prefix + 1 /\ ~is_uppercase(reference[i - 1]) /\ is_uppercase(reference[i])
         THEN i - 1
    ELSE PrefixScan(reference, i + 1, prefix)

RECURSIVE PrefixLoop(_, _, _)
PrefixLoop(names, reference, prefix) ==
    LET candidate == PrefixScan(reference, prefix + 1, prefix) IN
    IF \E k \in 1..Len(names) : ~starts_with(names[k], SubSeq(reference, 1, candidate))
    THEN SubSeq(reference, 1, prefix)
    ELSE IF candidate = Len(reference) THEN reference
    ELSE PrefixLoop(names, reference, candidate)

common_prefix(names) == IF names = <<>> THEN <<>> ELSE PrefixLoop(names, names[1], 0)

\* The inner for loop of common_suffix, scanning reference[..len - suffix] backwards
\* from index j: the char is counted first, then the boundary is tested.
RECURSIVE SuffixScan(_, _, _)
SuffixScan(reference, j, first) ==
    IF j < 1 THEN Len(reference)
    ELSE IF j < first /\ is_uppercase(reference[j]) /\ ~is_uppercase(reference[j + 1])
         THEN Len(reference) - j + 1
    ELSE SuffixScan(reference, j - 1, first)

RECURSIVE SuffixLoop(_, _, _)
SuffixLoop(names, reference, suffix) ==
    LET n == Len(reference)
        candidate == SuffixScan(reference, n - suffix, n - suffix) IN
    IF \E k \in 1..Len(names) : ~ends_with(names[k], SubSeq(reference, n - candidate + 1, n))
    THEN SubSeq(reference, n - suffix + 1, n)
    ELSE IF candidate = n THEN reference
    ELSE SuffixLoop(names, reference, candidate)

common_suffix(names) == IF names = <<>> THEN <<>> ELSE SuffixLoop(names, names[1], 0)

VariantNames(variants) == [i \in 1..Len(Keys(variants)) |-> variants[Keys(variants)[i]].name]

\* variant.name[common_prefix..variant.name.len() - common_suffix] aborts when the
\* range is not well formed.
SliceAborts(variants) ==
    LET cp == Len(common_prefix(VariantNames(variants)))
        cs == Len(common_suffix(VariantNames(variants)))
    IN  /\ Cardinality(DOMAIN variants) > 1
        /\ cp # cs
        /\ \E v \in DOMAIN variants : cp > Len(variants[v].name) - cs

fixup_variants(variants) ==
    LET cp == Len(common_prefix(VariantNames(variants)))
        cs == Len(common_suffix(VariantNames(variants)))
    IN  IF Cardinality(DOMAIN variants) <= 1 THEN variants
        ELSE IF cp = cs THEN variants
        ELSE [v \in DOMAIN variants |->
                [variants[v] EXCEPT !.name = SubSeq(@, cp + 1, Len(@) - cs)]]

strip_enum_variants(f) ==
    IF \E t \in DOMAIN f.types : f.types[t].kind = "Enum" /\ SliceAborts(f.types[t].variants)
    THEN Panicked(f)
    ELSE Done(SetTypes(f, [t \in DOMAIN f.types |->
            IF f.types[t].kind = "Enum"
            THEN [f.types[t] EXCEPT !.variants = fixup_variants(@)]
            ELSE f.types[t]]))

-----------------------------------------------------------------------------
(* Pass 2: make_keywords *)

make_keyword(f, path, value) ==
    LET hit == First(StructKeys(f), LAMBDA t : path \in DOMAIN f.types[t].fields) IN
    IF hit = {}
    THEN Failed(f, FixError("make_keyword", "can't make keyword: path not found", path))
    ELSE LET t == CHOOSE t \in hit : TRUE IN
         Done(SetTypes(f, [f.types EXCEPT ![t].fields[path].ty = Keyword(value)]))

-----------------------------------------------------------------------------
(* Passes 3-5: flatten_field, flatten_fields, flatten_one_fields, flatten_one_refs *)

flatten_field(f, path) ==
    LET hit == First(StructKeys(f), LAMBDA t : path \in DOMAIN f.types[t].fields) IN
    IF hit = {}
    THEN Failed(f, FixError("flatten", "can't flatten: field or type not found", path))
    ELSE
    LET into_type   == CHOOSE t \in hit : TRUE
        field       == f.types[into_type].fields[path]
        target_type == field.ty.arg
    IN
    IF ~IsRef(field.ty)
    THEN Failed(f, FixError("flatten", "can't flatten: field is a primitive", path))
    ELSE IF target_type \notin DOMAIN f.types
    THEN Panicked(f)   \* file.types.get(&target_type).unwrap()
    ELSE
    LET target == f.types[target_type] IN
    CASE target.kind = "Alias" ->
            Done(SetTypes(f, [f.types EXCEPT ![into_type].fields[path].ty = target.ty]))
      [] target.kind = "Struct" ->
            IF ~field.flatten
            THEN Failed(f, FixError("flatten", "can't flatten: field is not flatten", path))
            ELSE Done(SetTypes(f, [f.types EXCEPT ![into_type].fields =
                        MapAppend(MapRemove(@, path), target.fields)]))
      [] target.kind = "Enum" ->
            Failed(f, FixError("flatten", "can't flatten: target type is not a struct", path))

\* for path in paths { match flatten_field(file, path) { Ok => (), Err(e) => errs.push(e) } }
RECURSIVE FlattenAll(_, _, _)
FlattenAll(f, paths, acc) ==
    IF paths = <<>> THEN [file |-> f, errs |-> acc, panic |-> FALSE]
    ELSE LET r == flatten_field(f, Head(paths)) IN
         IF r.panic THEN [file |-> r.file, errs |-> acc, panic |-> TRUE]
         ELSE FlattenAll(r.file, Tail(paths), acc \o r.errs)

\* The (type, field) pairs of every struct field, in iteration order.
RECURSIVE Concat(_)
Concat(seqs) == IF seqs = <<>> THEN <<>> ELSE Head(seqs) \o Concat(Tail(seqs))

AllFields(f) ==
    Concat([i \in 1..Len(StructKeys(f)) |->
        LET t == StructKeys(f)[i] IN
        [j \in 1..Len(Keys(f.types[t].fields)) |-> <<t, Keys(f.types[t].fields)[j]>>]])

FieldAt(f, tf) == f.types[tf[1]].fields[tf[2]]

\* The first loop of flatten_fields: the fields whose type is one of the configured
\* paths.  A configured path that is referenced but missing aborts (unwrap).
FlattenCandidates(f, paths) ==
    SelectSeq(AllFields(f), LAMBDA tf :
        IsRef(FieldAt(f, tf).ty) /\ FieldAt(f, tf).ty.arg \in Range(paths))

flatten_fields(f, paths) ==
    LET cands == FlattenCandidates(f, paths)
        kept  == SelectSeq(cands, LAMBDA tf :
                    LET replaced == f.types[FieldAt(f, tf).ty.arg] IN
                    \/ replaced.kind = "Alias"
                    \/ replaced.kind = "Struct" /\ FieldAt(f, tf).flatten)
        types  == { FieldAt(f, kept[i]).ty.arg : i \in 1..Len(kept) }
        paths2 == [i \in 1..Len(kept) |-> FieldAt(f, kept[i]).path]
    IN  IF \E i \in 1..Len(cands) : FieldAt(f, cands[i]).ty.arg \notin DOMAIN f.types
        THEN Panicked(f)
        ELSE FlattenAll(f, SelectSeq(paths, LAMBDA p : p \notin types) \o paths2, <<>>)

flatten_one_fields(f) ==
    LET sel == SelectSeq(AllFields(f), LAMBDA tf :
                LET field == FieldAt(f, tf) IN
                /\ field.flatten
                /\ IsRef(field.ty)
                /\ field.ty.arg \in DOMAIN f.types
                /\ f.types[field.ty.arg].kind = "Struct"
                /\ Cardinality(DOMAIN f.types[field.ty.arg].fields) = 1)
    IN  FlattenAll(f, [i \in 1..Len(sel) |-> FieldAt(f, sel[i]).path], <<>>)

\* Number of elements of a set of booleans-by-index that hold
CountTrue(n, P(_)) == Cardinality({ i \in 1..n : P(i) })

\* count_refs that does not look through arrays: it counts TypeRef::Ref only
count_refs_direct(f, type_path) ==
    Cardinality({ m \in 1..Len(f.methods) : f.methods[m].result = Ref(type_path) })
    + Cardinality({ mp \in { <<m, i>> : m \in 1..Len(f.methods), i \in 1..1 } :
                    /\ mp[2] <= Len(f.methods[mp[1]].params)
                    /\ f.methods[mp[1]].params[mp[2]].ty = Ref(type_path) })
    + Cardinality({ tp \in { <<t, p>> : t \in DOMAIN f.types, p \in Paths } :
                    LET ty == f.types[tp[1]] IN
                    \/ tp[2] \in DOMAIN ty.fields /\ ty.fields[tp[2]].ty = Ref(type_path)
                    \/ tp[2] \in DOMAIN ty.variants /\ ty.variants[tp[2]].ty = Ref(type_path)
                    \/ tp[2] = tp[1] /\ ty.kind = "Alias" /\ ty.ty = Ref(type_path) })

count_refs(f, type_path) ==
    LET inType(t) ==
            LET ty == f.types[t] IN
            CASE ty.kind = "Struct" ->
                    Cardinality({ p \in DOMAIN ty.fields : type_path \in inner_path(ty.fields[p].ty) })
              [] ty.kind = "Enum" ->
                    Cardinality({ p \in DOMAIN ty.variants : type_path \in inner_path(ty.variants[p].ty) })
              [] ty.kind = "Alias" ->
                    IF type_path \in inner_path(ty.ty) THEN 1 ELSE 0
        inMethod(m) ==
            (IF type_path \in inner_path(m.result) THEN 1 ELSE 0)
            + CountTrue(Len(m.params), LAMBDA i : type_path \in inner_path(m.params[i].ty))
        RECURSIVE SumTypes(_)
        SumTypes(ks) == IF ks = <<>> THEN 0 ELSE inType(Head(ks)) + SumTypes(Tail(ks))
        RECURSIVE SumMethods(_)
        SumMethods(ms) == IF ms = <<>> THEN 0 ELSE inMethod(Head(ms)) + SumMethods(Tail(ms))
    IN  SumTypes(Keys(f.types)) + SumMethods(f.methods)

\* One iteration of the alias loop of flatten_one_refs.
MergeAlias(f, alias) ==
    IF alias \notin DOMAIN f.types THEN Panicked(f)            \* get(&alias).unwrap()
    ELSE IF f.types[alias].kind # "Alias" THEN Panicked(f)     \* unreachable!()
    ELSE IF ~IsRef(f.types[alias].ty) THEN Panicked(f)         \* unreachable!()
    ELSE
    LET ty_path            == f.types[alias].path
        replaced_type_path == f.types[alias].ty.arg
    IN
    IF replaced_type_path \notin DOMAIN f.types
    THEN Failed(f, FixError("flatten_one_refs", "can't flatten alias: broken reference found", ty_path))
    ELSE
    LET replaced_type == f.types[replaced_type_path]
        removed       == MapRemove(f.types, replaced_type_path)
    IN
    IF alias \notin DOMAIN removed THEN Panicked(SetTypes(f, removed))   \* get_mut(&alias).unwrap()
    ELSE Done(SetTypes(f, [removed EXCEPT ![alias] =
                [replaced_type EXCEPT !.name = removed[alias].name,
                                      !.path = removed[alias].path]]))

RECURSIVE MergeAll(_, _, _)
MergeAll(f, aliases, acc) ==
    IF aliases = <<>> THEN [file |-> f, errs |-> acc, panic |-> FALSE]
    ELSE LET r == MergeAlias(f, Head(aliases)) IN
         IF r.panic THEN [file |-> r.file, errs |-> acc, panic |-> TRUE]
         ELSE MergeAll(r.file, Tail(aliases), acc \o r.errs)

\* The first loop of flatten_one_refs: the flatten-marked fields whose target is
\* referenced once
OneRefFields(f) ==
    LET sel == SelectSeq(AllFields(f), LAMBDA tf :
                LET field == FieldAt(f, tf) IN
                field.flatten /\ IsRef(field.ty) /\ count_refs(f, field.ty.arg) = 1)
    IN  [i \in 1..Len(sel) |-> FieldAt(f, sel[i]).path]

\* ... and the aliases whose target is referenced once
OneRefAliases(f) ==
    LET akeys == SelectSeq(Keys(f.types), LAMBDA t :
                    /\ f.types[t].kind = "Alias"
                    /\ IsRef(f.types[t].ty)
                    /\ count_refs(f, f.types[t].ty.arg) = 1)
    IN  [i \in 1..Len(akeys) |-> f.types[akeys[i]].path]

flatten_one_refs(f) ==
    LET r1 == FlattenAll(f, OneRefFields(f), <<>>)
    IN  IF r1.panic THEN r1 ELSE MergeAll(r1.file, OneRefAliases(f), r1.errs)

-----------------------------------------------------------------------------
(* Pass 6: remove_things *)

\* The first type, in key order, that holds a field or a variant with this key.
FirstHolder(f, path) ==
    First(Keys(f.types), LAMBDA t :
        \/ f.types[t].kind = "Struct" /\ path \in DOMAIN f.types[t].fields
        \/ f.types[t].kind = "Enum" /\ path \in DOMAIN f.types[t].variants)

remove_thing(f, path) ==
    IF path \in DOMAIN f.types THEN Done(SetTypes(f, MapRemove(f.types, path)))
    ELSE IF FirstHolder(f, path) = {}
    THEN Failed(f, FixError("remove", "can't remove: path not found", path))
    ELSE LET t == CHOOSE t \in FirstHolder(f, path) : TRUE IN
         IF f.types[t].kind = "Struct"
         THEN Done(SetTypes(f, [f.types EXCEPT ![t].fields = MapRemove(@, path)]))
         ELSE Done(SetTypes(f, [f.types EXCEPT ![t].variants = MapRemove(@, path)]))

-----------------------------------------------------------------------------
(* Pass 8: rename_things *)

\* rename_thing that returns Ok(()) when nothing carries the path
rename_thing_silent(f, path, by) ==
    IF path \in DOMAIN f.types THEN Done(SetTypes(f, [f.types EXCEPT ![path].name = by]))
    ELSE IF FirstHolder(f, path) = {}
    THEN Done(f)
    ELSE LET t == CHOOSE t \in FirstHolder(f, path) : TRUE IN
         IF f.types[t].kind = "Struct"
         THEN Done(SetTypes(f, [f.types EXCEPT ![t].fields[path].name = by]))
         ELSE Done(SetTypes(f, [f.types EXCEPT ![t].variants[path].name = by]))

rename_thing(f, path, by) ==
    IF path \in DOMAIN f.types THEN Done(SetTypes(f, [f.types EXCEPT ![path].name = by]))
    ELSE IF FirstHolder(f, path) = {}
    THEN Failed(f, FixError("rename", "can't rename: path not found", path))
    ELSE LET t == CHOOSE t \in FirstHolder(f, path) : TRUE IN
         IF f.types[t].kind = "Struct"
         THEN Done(SetTypes(f, [f.types EXCEPT ![t].fields[path].name = by]))
         ELSE Done(SetTypes(f, [f.types EXCEPT ![t].variants[path].name = by]))

-----------------------------------------------------------------------------
(* Pass 7: replace_types *)

\* if matches!(ty, TypeRef::Ref(p) if p == path) { ty = TypeRef::ExternalRef(by) }
ReplaceRef(ty, path, by) == IF IsRef(ty) /\ ty.arg = path THEN ExternalRef(by) ELSE ty

replace_type(f, path, by) ==
    IF path \notin DOMAIN f.types
    THEN Failed(f, FixError("replace", "can't replace: type not found", path))
    ELSE
    LET removed == MapRemove(f.types, path)
        types == [t \in DOMAIN removed |->
            [removed[t] EXCEPT
                !.fields   = [p \in DOMAIN @ |-> [@[p] EXCEPT !.ty = ReplaceRef(@, path, by)]],
                !.variants = [p \in DOMAIN @ |-> [@[p] EXCEPT !.ty = ReplaceRef(@, path, by)]],
                !.ty       = ReplaceRef(@, path, by)]]
        methods == [i \in 1..Len(f.methods) |->
            [f.methods[i] EXCEPT
                !.result = ReplaceRef(@, path, by),
                !.params = [j \in 1..Len(@) |-> [@[j] EXCEPT !.ty = ReplaceRef(@, path, by)]]]]
    IN  Done([methods |-> methods, types |-> types])

-----------------------------------------------------------------------------
(* Pass 10: remove_stray_types *)

\* The inner paths of a sequence of TypeRefs, in order (filter_map(inner_path)).
RECURSIVE InnerPaths(_)
InnerPaths(refs) ==
    IF refs = <<>> THEN <<>>
    ELSE (IF inner_path(Head(refs)) = {} THEN <<>> ELSE <<Head(refs).arg>>) \o InnerPaths(Tail(refs))

\* The TypeRefs held by a type, in iteration order.
RefsOf(ty) ==
    CASE ty.kind = "Struct" -> [i \in 1..Len(Keys(ty.fields)) |-> ty.fields[Keys(ty.fields)[i]].ty]
      [] ty.kind = "Enum"   -> [i \in 1..Len(Keys(ty.variants)) |-> ty.variants[Keys(ty.variants)[i]].ty]
      [] ty.kind = "Alias"  -> <<ty.ty>>

\* StrayRoots without the chain over the method results
StrayRootsNoResults(f) ==
    LET byMethod == SelectSeq(Keys(f.types), LAMBDA t : f.types[t].source = "Method") IN
    [i \in 1..Len(byMethod) |-> f.types[byMethod[i]].path]
    \o Concat([i \in 1..Len(f.methods) |->
            InnerPaths([j \in 1..Len(f.methods[i].params) |-> f.methods[i].params[j].ty])])

\* The initial to_visit of remove_stray_types.
StrayRoots(f) ==
    LET byMethod == SelectSeq(Keys(f.types), LAMBDA t : f.types[t].source = "Method") IN
    [i \in 1..Len(byMethod) |-> f.types[byMethod[i]].path]
    \o InnerPaths([i \in 1..Len(f.methods) |-> f.methods[i].result])
    \o Concat([i \in 1..Len(f.methods) |->
            InnerPaths([j \in 1..Len(f.methods[i].params) |-> f.methods[i].params[j].ty])])

\* while let Some(path) = to_visit.pop() { ... }
RECURSIVE Visit(_, _, _)
Visit(f, to_visit, not_stray) ==
    IF to_visit = <<>> THEN not_stray
    ELSE
    LET path == to_visit[Len(to_visit)]
        rest == SubSeq(to_visit, 1, Len(to_visit) - 1)
    IN  IF path \in not_stray THEN Visit(f, rest, not_stray)
        ELSE IF path \notin DOMAIN f.types THEN Visit(f, rest, not_stray \cup {path})
        ELSE Visit(f, rest \o InnerPaths(RefsOf(f.types[path])), not_stray \cup {path})

remove_stray_types(f) ==
    LET not_stray == Visit(f, StrayRoots(f), {}) IN
    Done(SetTypes(f, [t \in { t \in DOMAIN f.types : f.types[t].path \in not_stray } |-> f.types[t]]))

-----------------------------------------------------------------------------
(* Pass 9: tag_enums, find_keyword *)

\* Result<FindKeywordResult, String>, or the recursion that never returns.
KwOk(fields, value) == [ok |-> TRUE,  diverge |-> FALSE, fields |-> fields, value |-> value, msg |-> ""]
KwErr(msg)          == [ok |-> FALSE, diverge |-> FALSE, fields |-> <<>>,   value |-> "",    msg |-> msg]
KwDiverge           == [ok |-> FALSE, diverge |-> TRUE,  fields |-> <<>>,   value |-> "",    msg |-> ""]

\* find_keyword is pure and deterministic: a call that re-enters a path already on
\* its own call stack repeats itself for ever (the stack overflows).
RECURSIVE find_keyword_in(_, _, _, _)
RECURSIVE StructLoop(_, _, _, _, _, _)
RECURSIVE EnumLoop(_, _, _, _, _, _, _)

\* for field in s.fields.values() { ... }; ret is {} (None) or {r} (Some(r))
StructLoop(f, path, name, stack, fkeys, ret) ==
    IF fkeys = <<>>
    THEN IF ret = {}
         THEN KwErr("failed to tag enum: no field with the requested name found in struct fields")
         ELSE CHOOSE r \in ret : TRUE
    ELSE
    LET field == f.types[path].fields[Head(fkeys)]
        named == field.name_in_json = name
    IN
    IF named /\ ~IsKeyword(field.ty)
    THEN KwErr("failed to tag enum: field is not a keyword")
    ELSE IF named /\ ret # {}
    THEN KwErr("failed to tag enum: multiple fields with the same name found")
    ELSE
    LET ret1 == IF named THEN {KwOk(<< <<path, field.path>> >>, field.ty.arg)} ELSE ret IN
    IF ~field.flatten \/ ~IsRef(field.ty)
    THEN StructLoop(f, path, name, stack, Tail(fkeys), ret1)
    ELSE
    LET ret2 == find_keyword_in(f, field.ty.arg, name, stack \cup {path}) IN
    IF ret2.diverge THEN KwDiverge
    ELSE IF ret1 # {} /\ ret2.ok
    THEN KwErr("failed to tag enum: multiple fields with the same name found")
    ELSE IF ret2.ok THEN StructLoop(f, path, name, stack, Tail(fkeys), {ret2})
    ELSE StructLoop(f, path, name, stack, Tail(fkeys), ret1)

\* for variant in e.variants.values() { ... }; value is {} (None) or {v} (Some(v))
EnumLoop(f, path, name, stack, vkeys, rets, value) ==
    IF vkeys = <<>>
    THEN IF value = {}
         THEN KwErr("failed to tag enum: no field with the requested name found in enum variants")
         ELSE KwOk(rets, CHOOSE v \in value : TRUE)
    ELSE
    LET variant == f.types[path].variants[Head(vkeys)] IN
    IF variant.ty = NoType
    THEN KwErr("failed to tag enum: variant contains no inner value")
    ELSE IF ~IsRef(variant.ty)
    THEN KwErr("failed to tag enum: inner type is a literal")
    ELSE
    LET ret == find_keyword_in(f, variant.ty.arg, name, stack \cup {path}) IN
    IF ret.diverge THEN KwDiverge
    ELSE IF ~ret.ok THEN ret
    ELSE IF value # {} /\ value # {ret.value}
    THEN KwErr("failed to tag enum: multiple fields with the same name found")
    ELSE EnumLoop(f, path, name, stack, Tail(vkeys), rets \o ret.fields, {ret.value})

find_keyword_in(f, path, name, stack) ==
    IF path \in stack THEN KwDiverge
    ELSE IF path \notin DOMAIN f.types THEN KwErr("failed to tag enum: path not found")
    ELSE
    LET ty == f.types[path] IN
    CASE ty.kind = "Struct" ->
            IF name \in DOMAIN ty.tags THEN KwOk(<<>>, ty.tags[name])
            ELSE StructLoop(f, path, name, stack, Keys(ty.fields), {})
      [] ty.kind = "Enum" ->
            IF ty.tag = Normal THEN KwErr("failed to tag enum: enum is already tagged")
            ELSE EnumLoop(f, path, name, stack, Keys(ty.variants), <<>>, {})
      [] ty.kind = "Alias" ->
            IF ~IsRef(ty.ty) THEN KwErr("failed to tag enum: inner type is a literal")
            ELSE find_keyword_in(f, ty.ty.arg, name, stack \cup {path})

find_keyword(f, path, name) == find_keyword_in(f, path, name, {})

\* The first loop of tag_enum: to_fix as a sequence of <<variant path, result>>, or
\* the first error.  acc is to_fix so far.
RECURSIVE CollectToFix(_, _, _, _, _)
CollectToFix(f, path, tag, vkeys, acc) ==
    IF vkeys = <<>> THEN [ok |-> TRUE, diverge |-> FALSE, to_fix |-> acc, msg |-> ""]
    ELSE
    LET variant == f.types[path].variants[Head(vkeys)] IN
    IF variant.ty = NoType
    THEN [ok |-> FALSE, diverge |-> FALSE, to_fix |-> <<>>,
          msg |-> "failed to tag enum: variant contains no inner value"]
    ELSE IF ~IsRef(variant.ty)
    THEN [ok |-> FALSE, diverge |-> FALSE, to_fix |-> <<>>,
          msg |-> "failed to tag enum: inner type is a literal"]
    ELSE
    LET res == find_keyword(f, variant.ty.arg, tag) IN
    IF res.diverge THEN [ok |-> FALSE, diverge |-> TRUE, to_fix |-> <<>>, msg |-> ""]
    ELSE IF ~res.ok THEN [ok |-> FALSE, diverge |-> FALSE, to_fix |-> <<>>, msg |-> res.msg]
    ELSE CollectToFix(f, path, tag, Tail(vkeys), Append(acc, <<variant.path, res>>))

\* ConsumeFields that records the tag and leaves the field in the struct
RECURSIVE ConsumeFieldsKeep(_, _, _, _)
ConsumeFieldsKeep(types, fields, tag, value) ==
    IF fields = <<>> THEN types
    ELSE ConsumeFieldsKeep(
            [types EXCEPT ![Head(fields)[1]].tags = MapPut(@, tag, value)],
            Tail(fields), tag, value)

\* for (ty_path, field_path) in &res.fields { s.fields.remove(..); s.tags.insert(..) }
RECURSIVE ConsumeFields(_, _, _, _)
ConsumeFields(types, fields, tag, value) ==
    IF fields = <<>> THEN types
    ELSE LET ty_path    == Head(fields)[1]
             field_path == Head(fields)[2]
         IN  ConsumeFields(
                [types EXCEPT ![ty_path].fields = MapRemove(@, field_path),
                              ![ty_path].tags   = MapPut(@, tag, value)],
                Tail(fields), tag, value)

RECURSIVE ConsumeAll(_, _, _)
ConsumeAll(types, to_fix, tag) ==
    IF to_fix = <<>> THEN types
    ELSE ConsumeAll(ConsumeFields(types, Head(to_fix)[2].fields, tag, Head(to_fix)[2].value),
                    Tail(to_fix), tag)

\* tag_enum that sets the tag of the enum before it searches the variants
tag_enum_eager(f, path, tag) ==
    IF path \notin DOMAIN f.types
    THEN Failed(f, FixError("tag", "failed to tag enum: path not found", path))
    ELSE IF f.types[path].kind # "Enum"
    THEN Failed(f, FixError("tag", "failed to tag enum: type is not an enum", path))
    ELSE
    LET c == CollectToFix(f, path, tag, Keys(f.types[path].variants), <<>>)
        g == SetTypes(f, [f.types EXCEPT ![path].tag = Tagged(tag)])
    IN  IF c.diverge THEN Panicked(g)
        ELSE IF ~c.ok THEN Failed(g, FixError("tag", c.msg, path))
        ELSE
        LET value(v) == LET i == CHOOSE i \in 1..Len(c.to_fix) : c.to_fix[i][1] = v
                        IN  c.to_fix[i][2].value
            tagged == [g.types EXCEPT
                        ![path].variants = [v \in DOMAIN @ |-> [@[v] EXCEPT !.name_in_json = <<value(v)>>]]]
        IN  Done(SetTypes(g, ConsumeAll(tagged, c.to_fix, tag)))

tag_enum(f, path, tag) ==
    IF path \notin DOMAIN f.types
    THEN Failed(f, FixError("tag", "failed to tag enum: path not found", path))
    ELSE IF f.types[path].kind # "Enum"
    THEN Failed(f, FixError("tag", "failed to tag enum: type is not an enum", path))
    ELSE
    LET c == CollectToFix(f, path, tag, Keys(f.types[path].variants), <<>>) IN
    IF c.diverge THEN Panicked(f)
    ELSE IF ~c.ok THEN Failed(f, FixError("tag", c.msg, path))
    ELSE
    LET value(v) == LET i == CHOOSE i \in 1..Len(c.to_fix) : c.to_fix[i][1] = v
                    IN  c.to_fix[i][2].value
        tagged == [f.types EXCEPT
                    ![path].tag = Tagged(tag),
                    ![path].variants = [v \in DOMAIN @ |-> [@[v] EXCEPT !.name_in_json = <<value(v)>>]]]
    IN  Done(SetTypes(f, ConsumeAll(tagged, c.to_fix, tag)))

-----------------------------------------------------------------------------
(* The documents: Files as parse() returns them (parse/logic.rs) *)

\* The variants of E: as many as the document names
VariantPaths == << "E/v0", "E/v1", "E/v2" >>

\* The display names of the variants of E, unless stated otherwise
DefaultNames == << <<"T", "x", "A">>, <<"T", "x", "B">> >>

\* A schema library with two $ref aliases (A, B), a oneOf enum (E), an allOf struct
\* (S), two object structs (T, U), an inline object under U/g, and one method whose
\* parameter is a $ref, an array of $ref or an inline object (P).  c chooses the
\* targets of the references.
ParsedFile(c) ==
    LET anon == "U/g/_anon"
        base ==
          [t \in {"A", "B", "E", "S", "T", "U", anon} |->
            CASE t = "A" -> AliasDef("A", <<"A">>, "Declared", c.a)
              [] t = "B" -> AliasDef("B", <<"B">>, "Declared", c.b)
              [] t = "E" -> EnumDef("E", <<"E">>, "Declared",
                    [v \in { VariantPaths[k] : k \in 1..Len(c.names) } |->
                        LET k == CHOOSE k \in 1..Len(c.names) : VariantPaths[k] = v
                        IN  EnumVariant(v, c.names[k], IF k = 1 THEN c.v0 ELSE c.v1)],
                    Untagged)
              [] t = "S" -> StructDef("S", <<"S">>, "Declared",
                    [p \in {"S/f0", "S/f1"} |->
                        IF p = "S/f0" THEN StructField(p, <<"t">>, "t", TRUE, TRUE, Ref("T"))
                                      ELSE StructField(p, <<"u">>, "u", TRUE, TRUE, c.s1)])
              [] t = "T" -> StructDef("T", <<"T">>, "Declared",
                    [p \in {"T/type"} |-> StructField(p, <<"t", "y">>, "type", TRUE, FALSE, Keyword("t"))])
              [] t = "U" -> StructDef("U", <<"U">>, "Declared",
                    [p \in {"U/g", "U/type"} |->
                        IF p = "U/g" THEN StructField(p, <<"g">>, "g", FALSE, FALSE, Ref(anon))
                                     ELSE StructField(p, <<"t", "y">>, "type", c.ur, FALSE, c.ut)])
              [] t = anon -> StructDef(anon, <<"G">>, "Anonymous",
                    [p \in {"U/g/_anon/h"} |-> StructField(p, <<"h">>, "h", TRUE, FALSE, IntegerTy)])]
        inline == [t \in {"P"} |-> StructDef("P", <<"P">>, "Method",
                    [p \in {"P/x"} |-> StructField(p, <<"x">>, "x", TRUE, FALSE, Array(Ref("U")))])]
    IN  [methods |-> << Method("m", << MethodParameter("p", c.param) >>, c.result) >>,
         types   |-> IF c.param = Ref("P") THEN MapAppend(base, inline) ELSE base]

\* The alias targets (a, b), the enum payloads (v0, v1), the second member of S with
\* the type of U/type (s1, ut), and the method's parameter and result.  U/type is
\* required (ur) and the variants of E have the default names.
Choices ==
    { [a |-> al[1], b |-> al[2], v0 |-> en[1], v1 |-> en[2], s1 |-> su[1], ut |-> su[2],
       param |-> me[1], result |-> me[2], ur |-> TRUE, names |-> DefaultNames] :
        al \in { <<Ref("B"), Ref("T")>>, <<Ref("S"), Ref("A")>>, <<Ref("B"), Ref("A")>> },
        en \in { <<Ref("T"), Ref("U")>>, <<Ref("S"), Ref("U")>>, <<Ref("T"), Ref("A")>> },
        su \in { <<Ref("U"), Keyword("u")>>, <<Ref("U"), StringTy>>, <<Ref("S"), Keyword("t")>>,
                 <<Ref("U/g/_anon"), Keyword("u")>> },
        me \in { <<Ref("E"), NoType>>, <<Array(Array(Ref("A"))), Ref("S")>>, <<Ref("P"), NoType>> } }

ParsedFiles == { ParsedFile(c) : c \in Choices }

-----------------------------------------------------------------------------
(* The configuration (config.rs, Fixes) *)

\* The entries a run may configure.  The boolean options and the entries of each
\* list are drawn when the pass that reads them runs: Config is immutable and every
\* option is read by one pass only.
MakeKeywordPaths == {"U/type", "Z"}
KeywordValues    == {"u"}
FlattenPaths     == {"S/f0", "S/f1", "T", "Z"}
RemovePaths      == {"T", "T/type", "E/v1", "Z"}
ReplacePaths     == {"A", "U", "Z"}
ExternalNames    == {"ext::X"}
RenamePaths      == {"T", "T/type", "E/v0", "Z"}
NewNames         == { <<"N">> }
TagPaths         == {"E", "S", "Z"}
TagNames         == {"type"}
PreserveSets     == { {}, {"B"} }

\* Sequences over S of length at most n
RECURSIVE SeqsUpTo(_, _)
SeqsUpTo(S, n) ==
    IF n = 0 THEN { <<>> }
    ELSE SeqsUpTo(S, n - 1) \cup { Append(q, x) : q \in SeqsUpTo(S, n - 1), x \in S }

-----------------------------------------------------------------------------
(* fix(): the pipeline, one pass after the other (fix.rs 7-34) *)

\* A Fixes with every fix disabled
NoFixes ==
    [strip_enum_variants |-> FALSE, make_keyword |-> <<>>, flatten |-> <<>>,
     auto_flatten_one_fields |-> FALSE, auto_flatten_one_ref |-> FALSE, remove |-> <<>>,
     replace |-> <<>>, rename |-> <<>>, tagged_enums |-> <<>>,
     remove_stray_types |-> FALSE, preserve |-> {}]

-----------------------------------------------------------------------------
(* TypeDeps (deps.rs): a directed graph of names.  nodes is the key set of the
   HashMap `nodes`, edges the edge set of the DiGraph `g`; a node weight is a name, a
   value of TypeDef.name in main(). *)

\* TypeDeps::new()
TypeDepsNew == [nodes |-> {}, edges |-> {}]

\* add_edge for each pair of a set: get_node creates the nodes that are missing
AddEdges(d, es) ==
    [nodes |-> d.nodes \cup { e[1] : e \in es } \cup { e[2] : e \in es },
     edges |-> d.edges \cup es]

add_edge(d, a, b) == AddEdges(d, {<<a, b>>})

\* self.g.edges(n): the targets of the outgoing edges of n
Successors(d, n) == { e[2] : e \in { e \in d.edges : e[1] = n } }

\* petgraph::algo::has_path_connecting: a depth-first search from `from` that
\* discovers `to`; the search starts by discovering `from` itself.
RECURSIVE Discover(_, _)
Discover(d, seen) ==
    LET more == UNION { Successors(d, n) : n \in seen } \ seen IN
    IF more = {} THEN seen ELSE Discover(d, seen \cup more)

has_path_connecting(d, from, to) == to \in Discover(d, {from})

\* has_path without its two early returns
has_path_unguarded(d, a, b) == has_path_connecting(d, a, b)

has_path(d, a, b) ==
    IF a = b THEN FALSE
    ELSE IF a \notin d.nodes \/ b \notin d.nodes THEN FALSE
    ELSE has_path_connecting(d, a, b)

\* petgraph::algo::all_simple_paths(..).next().is_some(): the search keeps the nodes
\* of the current path in `visited`, which starts as <<from>>.  A child equal to `to`
\* ends a path if `visited` holds at least min_length nodes; another child that is
\* not yet on the path is entered while `visited` holds fewer than max_length nodes.
RECURSIVE SimplePathSearch(_, _, _, _, _)
SimplePathSearch(d, to, visited, min_length, max_length) ==
    LET children == Successors(d, visited[Len(visited)]) IN
    IF Len(visited) < max_length
    THEN \/ to \in children /\ Len(visited) >= min_length
         \/ \E child \in children \ ({to} \cup Range(visited)) :
                SimplePathSearch(d, to, Append(visited, child), min_length, max_length)
    ELSE to \in children /\ Len(visited) >= min_length

\* max_intermediate_nodes is None: max_length = graph.node_count() - 1
all_simple_paths(d, from, to, min_intermediate_nodes) ==
    SimplePathSearch(d, to, <<from>>, min_intermediate_nodes + 1, Cardinality(d.nodes) - 1)

has_indirect_path(d, a, b) ==
    IF a \notin d.nodes \/ b \notin d.nodes THEN FALSE
    ELSE all_simple_paths(d, a, b, 1)

\* The sentinel nodes
MaybeImplicitDefault == <<"_MaybeImplicitDefault">>
Optional             == <<"_Optional">>
BrokenReference      == <<"BrokenReference">>

\* lift_out(file, config, r): the name a TypeRef depends on, looking through arrays;
\* config.primitives is Primitives::default()
lift_out(f, r) ==
    CASE r.kind = "Ref" ->
            IF r.arg \in DOMAIN f.types THEN f.types[r.arg].name ELSE BrokenReference
      [] r.kind = "ExternalRef" -> <<r.arg>>
      [] r.kind = "Integer" -> <<"i64">>
      [] r.kind \in {"String", "Keyword"} -> <<"String">>

\* add_dep(deps, file, config, a, b, required): the edges it adds
add_dep(f, a, b, required) ==
    {<<a, lift_out(f, b)>>}
    \cup (IF required THEN {} ELSE {<<a, MaybeImplicitDefault>>, <<lift_out(f, b), Optional>>})

\* TypeDeps::add(config, file).  config.generation.param_types is false (its default)
\* in every configuration of the model, so the loop over the methods adds nothing.
add(d, f) ==
    AddEdges(d, UNION { LET ty == f.types[t] IN
        CASE ty.kind = "Alias"  -> add_dep(f, ty.name, ty.ty, TRUE)
          [] ty.kind = "Struct" ->
                UNION { add_dep(f, ty.name, ty.fields[p].ty, ty.fields[p].required) :
                        p \in DOMAIN ty.fields }
          [] ty.kind = "Enum"   ->
                UNION { add_dep(f, ty.name, ty.variants[p].ty, TRUE) :
                        p \in { p \in DOMAIN ty.variants : ty.variants[p].ty # NoType } }
        : t \in DOMAIN f.types })

\* fix_defaults without the test e.target() != f
fix_defaults_root(d) ==
    LET f  == <<"F">>
        fd == <<"F_ImplicitDefault">>
        g  == [d EXCEPT !.nodes = @ \cup {MaybeImplicitDefault, f, fd, Optional}]
        sources == { e[1] : e \in { e \in g.edges : e[2] = MaybeImplicitDefault } }
        marked  == { s \in sources :
                        \E t \in Successors(g, s) :
                            /\ <<t, Optional>> \in g.edges
                            /\ has_path_connecting(g, t, f) }
    IN  AddEdges(g, { <<s, fd>> : s \in marked })

\* TypeDeps::fix_defaults()
fix_defaults(d) ==
    LET f  == <<"F">>
        fd == <<"F_ImplicitDefault">>
        g  == [d EXCEPT !.nodes = @ \cup {MaybeImplicitDefault, f, fd, Optional}]
        sources == { e[1] : e \in { e \in g.edges : e[2] = MaybeImplicitDefault } }
        marked  == { s \in sources :
                        \E t \in Successors(g, s) :
                            /\ <<t, Optional>> \in g.edges
                            /\ has_path_connecting(g, t, f)
                            /\ t # f }
    IN  AddEdges(g, { <<s, fd>> : s \in marked })

\* main(), lines 33-58: the graph of three documents
MainDeps(f1, f2, f3) ==
    fix_defaults(AddEdges(add(add(add(TypeDepsNew, f1), f2), f3),
        { << <<"BlockId">>, <<"F">> >>,
          << <<"BroadcastedInvokeTxn">>, <<"F">> >>,
          << <<"BroadcastedInvokeTxn">>, <<"F_ImplicitDefault">> >>,
          << <<"BroadcastedDeclareTxn">>, <<"F">> >>,
          << <<"BroadcastedDeclareTxn">>, <<"F_ImplicitDefault">> >>,
          << <<"BroadcastedDeployAccountTxn">>, <<"F">> >> }))

NoStep == [op |-> "parse", enabled |-> TRUE, path |-> "", val |-> "", name |-> <<>>,
           paths |-> <<>>, preserve |-> {}, ok |-> TRUE, errs |-> <<>>]

\* fix() has not returned
NoResult == [kind |-> "none", errs |-> <<>>]

IdleMain ==
    /\ mpc = [at |-> "fix", n |-> 0] /\ docs = <<>> /\ outputs = <<>> /\ status = "running"
    /\ fixes = NoFixes /\ deps = TypeDepsNew

Init ==
    /\ file \in ParsedFiles
    /\ errs = <<>>
    /\ pc = "strip"
    /\ lastKey = ""
    /\ used = 0
    /\ pre = file
    /\ step = NoStep
    /\ result = NoResult
    /\ IdleMain

\* Apply that makes fix() return at the first pass that reports an error
ApplyFailFast(r, next, st) ==
    /\ file' = r.file
    /\ errs' = errs \o r.errs
    /\ pc' = IF r.panic THEN "panic" ELSE IF r.errs # <<>> THEN "return" ELSE next
    /\ pre' = file
    /\ step' = [st EXCEPT !.ok = (r.errs = <<>> /\ ~r.panic), !.errs = r.errs]
    /\ result' = result
    /\ UNCHANGED <<mpc, docs, outputs, status, fixes, deps>>

\* What every pass does with the outcome r of its work: the File is r.file, the
\* errors are appended to errs, and the pipeline goes on unless the process aborted.
Apply(r, next, st) ==
    /\ file' = r.file
    /\ errs' = errs \o r.errs
    /\ pc' = IF r.panic THEN "panic" ELSE next
    /\ pre' = file
    /\ step' = [st EXCEPT !.ok = (r.errs = <<>> /\ ~r.panic), !.errs = r.errs]
    /\ result' = result
    /\ UNCHANGED <<mpc, docs, outputs, status, fixes, deps>>

\* if config.fixes.strip_enum_variants { strip_enum_variants(file); }
StripEnumVariants ==
    /\ pc = "strip"
    /\ \E enabled \in BOOLEAN :
        Apply(IF enabled THEN strip_enum_variants(file) ELSE Done(file), "make_keyword",
              [NoStep EXCEPT !.op = "strip", !.enabled = enabled])
    /\ UNCHANGED <<lastKey, used>>

\* One iteration of the loop of make_keywords over the BTreeMap config.fixes.make_keyword
MakeKeyword ==
    /\ pc = "make_keyword"
    /\ used < MaxFixes
    /\ \E path \in MakeKeywordPaths, value \in KeywordValues :
        /\ Rank(path) > Rank(lastKey)
        /\ Apply(make_keyword(file, path, value), "make_keyword",
                 [NoStep EXCEPT !.op = "make_keyword", !.path = path, !.val = value])
        /\ lastKey' = path
    /\ used' = used + 1

\* The loop is over: the next statement of fix()
NextOf(p) ==
    CASE p = "make_keyword" -> "flatten"
      [] p = "remove"       -> "replace"
      [] p = "replace"      -> "rename"
      [] p = "rename"       -> "tag"
      [] p = "tag"          -> "stray"

EndOfList ==
    /\ pc \in {"make_keyword", "remove", "replace", "rename", "tag"}
    /\ pc' = NextOf(pc)
    /\ lastKey' = ""
    /\ UNCHANGED <<file, errs, used, pre, step, result, mpc, docs, outputs, status, fixes, deps>>

\* flatten_fields(file, &config.fixes.flatten, &mut errs)
FlattenFields ==
    /\ pc = "flatten"
    /\ \E paths \in SeqsUpTo(FlattenPaths, MaxFixes - used) :
        /\ Apply(flatten_fields(file, paths), "one_fields",
                 [NoStep EXCEPT !.op = "flatten", !.paths = paths])
        /\ used' = used + Len(paths)
    /\ UNCHANGED lastKey

\* if config.fixes.auto_flatten_one_fields { flatten_one_fields(file, &mut errs); }
FlattenOneFields ==
    /\ pc = "one_fields"
    /\ \E enabled \in BOOLEAN :
        Apply(IF enabled THEN flatten_one_fields(file) ELSE Done(file), "one_refs",
              [NoStep EXCEPT !.op = "one_fields", !.enabled = enabled])
    /\ UNCHANGED <<lastKey, used>>

\* if config.fixes.auto_flatten_one_ref { flatten_one_refs(file, &mut errs); }
FlattenOneRefs ==
    /\ pc = "one_refs"
    /\ \E enabled \in BOOLEAN :
        Apply(IF enabled THEN flatten_one_refs(file) ELSE Done(file), "remove",
              [NoStep EXCEPT !.op = "one_refs", !.enabled = enabled])
    /\ UNCHANGED <<lastKey, used>>

\* One iteration of the loop of remove_things over the Vec config.fixes.remove
RemoveThing ==
    /\ pc = "remove"
    /\ used < MaxFixes
    /\ \E path \in RemovePaths :
        Apply(remove_thing(file, path), "remove", [NoStep EXCEPT !.op = "remove", !.path = path])
    /\ used' = used + 1
    /\ UNCHANGED lastKey

\* One iteration of the loop of replace_types over the BTreeMap config.fixes.replace
ReplaceType ==
    /\ pc = "replace"
    /\ used < MaxFixes
    /\ \E path \in ReplacePaths, by \in ExternalNames :
        /\ Rank(path) > Rank(lastKey)
        /\ Apply(replace_type(file, path, by), "replace",
                 [NoStep EXCEPT !.op = "replace", !.path = path, !.val = by])
        /\ lastKey' = path
    /\ used' = used + 1

\* One iteration of the loop of rename_things over the BTreeMap config.fixes.rename
RenameThing ==
    /\ pc = "rename"
    /\ used < MaxFixes
    /\ \E path \in RenamePaths, by \in NewNames :
        /\ Rank(path) > Rank(lastKey)
        /\ Apply(rename_thing(file, path, by), "rename",
                 [NoStep EXCEPT !.op = "rename", !.path = path, !.name = by])
        /\ lastKey' = path
    /\ used' = used + 1

\* One iteration of the loop of tag_enums over the BTreeMap config.fixes.tagged_enums
TagEnum ==
    /\ pc = "tag"
    /\ used < MaxFixes
    /\ \E path \in TagPaths, tag \in TagNames :
        /\ Rank(path) > Rank(lastKey)
        /\ Apply(tag_enum(file, path, tag), "tag",
                 [NoStep EXCEPT !.op = "tag", !.path = path, !.val = tag])
        /\ lastKey' = path
    /\ used' = used + 1

\* if config.fixes.remove_stray_types { remove_stray_types(file); }
\* config.fixes.preserve is part of the configuration of the run.
RemoveStrayTypes ==
    /\ pc = "stray"
    /\ \E enabled \in BOOLEAN, preserve \in PreserveSets :
        Apply(IF enabled THEN remove_stray_types(file) ELSE Done(file), "return",
              [NoStep EXCEPT !.op = "stray", !.enabled = enabled, !.preserve = preserve])
    /\ UNCHANGED <<lastKey, used>>

\* if !errs.is_empty() { return Err(errs); }  Ok(())
Return ==
    /\ pc = "return"
    /\ pc' = "done"
    /\ result' = IF errs # <<>> THEN [kind |-> "Err", errs |-> errs]
                                 ELSE [kind |-> "Ok", errs |-> <<>>]
    /\ UNCHANGED <<file, errs, lastKey, used, pre, step, mpc, docs, outputs, status, fixes, deps>>

Next ==
    \/ StripEnumVariants
    \/ MakeKeyword
    \/ EndOfList
    \/ FlattenFields
    \/ FlattenOneFields
    \/ FlattenOneRefs
    \/ RemoveThing
    \/ ReplaceType
    \/ RenameThing
    \/ TagEnum
    \/ RemoveStrayTypes
    \/ Return

Spec == Init /\ [][Next]_vars

-----------------------------------------------------------------------------
(* fix() as one call (fix.rs 7-34), for the callers of the pipeline *)

\* The outcome of r followed by the outcome r2 of the next piece of work
AndThen(r, r2) ==
    IF r.panic THEN r
    ELSE [file |-> r2.file, errs |-> r.errs \o r2.errs, panic |-> r2.panic]

RECURSIVE make_keywords(_, _)
make_keywords(r, entries) ==
    IF entries = <<>> \/ r.panic THEN r
    ELSE make_keywords(AndThen(r, make_keyword(r.file, Head(entries)[1], Head(entries)[2])),
                       Tail(entries))

RECURSIVE remove_things(_, _)
remove_things(r, entries) ==
    IF entries = <<>> \/ r.panic THEN r
    ELSE remove_things(AndThen(r, remove_thing(r.file, Head(entries))), Tail(entries))

RECURSIVE replace_types(_, _)
replace_types(r, entries) ==
    IF entries = <<>> \/ r.panic THEN r
    ELSE replace_types(AndThen(r, replace_type(r.file, Head(entries)[1], Head(entries)[2])),
                       Tail(entries))

RECURSIVE rename_things(_, _)
rename_things(r, entries) ==
    IF entries = <<>> \/ r.panic THEN r
    ELSE rename_things(AndThen(r, rename_thing(r.file, Head(entries)[1], Head(entries)[2])),
                       Tail(entries))

RECURSIVE tag_enums(_, _)
tag_enums(r, entries) ==
    IF entries = <<>> \/ r.panic THEN r
    ELSE tag_enums(AndThen(r, tag_enum(r.file, Head(entries)[1], Head(entries)[2])),
                   Tail(entries))

\* The statements of fix() that are not loops: the pass runs, when it is enabled, on
\* the File the earlier ones left, and its errors follow theirs.
fix_strip_enum_variants(r, enabled) ==
    IF r.panic \/ ~enabled THEN r ELSE AndThen(r, strip_enum_variants(r.file))

fix_flatten_fields(r, paths) ==
    IF r.panic THEN r ELSE AndThen(r, flatten_fields(r.file, paths))

fix_flatten_one_fields(r, enabled) ==
    IF r.panic \/ ~enabled THEN r ELSE AndThen(r, flatten_one_fields(r.file))

fix_flatten_one_refs(r, enabled) ==
    IF r.panic \/ ~enabled THEN r ELSE AndThen(r, flatten_one_refs(r.file))

fix_remove_stray_types(r, enabled) ==
    IF r.panic \/ ~enabled THEN r ELSE AndThen(r, remove_stray_types(r.file))

\* fix(file, config): the File it leaves, the errors it returns (Ok when there are
\* none), and whether the process aborted inside it.
fix(f, config) ==
    fix_remove_stray_types(
      tag_enums(
        rename_things(
          replace_types(
            remove_things(
              fix_flatten_one_refs(
                fix_flatten_one_fields(
                  fix_flatten_fields(
                    make_keywords(
                      fix_strip_enum_variants(Done(f), config.fixes.strip_enum_variants),
                      config.fixes.make_keyword),
                    config.fixes.flatten),
                  config.fixes.auto_flatten_one_fields),
                config.fixes.auto_flatten_one_ref),
              config.fixes.remove),
            config.fixes.replace),
          config.fixes.rename),
        config.fixes.tagged_enums),
      config.fixes.remove_stray_types)

-----------------------------------------------------------------------------
(* main(): three documents are loaded and fixed, then generated (main.rs) *)


\* The configuration files main() may find
MainConfigs ==
    { [fixes |-> NoFixes, run_rustfmt |-> FALSE],
      [fixes |-> [NoFixes EXCEPT !.tagged_enums = << <<"E", "type">> >>,
                                 !.remove_stray_types = TRUE],
       run_rustfmt |-> TRUE],
      [fixes |-> [NoFixes EXCEPT !.remove = << "Z" >>, !.strip_enum_variants = TRUE],
       run_rustfmt |-> FALSE] }

\* The documents main() may find: one that tags, one that does not, and one whose
\* method result refers to a schema that is not there.
MainDocuments ==
    { c \in [a : {Ref("B")}, b : {Ref("T")}, v0 : {Ref("T")}, v1 : {Ref("U")},
             s1 : {Ref("U")}, ut : {Keyword("u"), StringTy},
             param : {Ref("E")}, result : {NoType, Ref("Z")},
             ur : {TRUE}, names : {DefaultNames}] :
        c.ut = StringTy => c.result = NoType }

\* parse(doc): the File, or the errors of the references that do not resolve
parse(doc) ==
    LET f == ParsedFile(doc)
        refs == Concat([i \in 1..Len(Keys(f.types)) |-> RefsOf(f.types[Keys(f.types)[i]])])
                \o Concat([i \in 1..Len(f.methods) |->
                        <<f.methods[i].result>>
                        \o [j \in 1..Len(f.methods[i].params) |-> f.methods[i].params[j].ty]])
        missing == SelectSeq(InnerPaths(refs), LAMBDA p : p \notin DOMAIN f.types)
    IN  [ok   |-> missing = <<>>,
         file |-> f,
         errs |-> [i \in 1..Len(missing) |->
                    [path |-> missing[i], message |-> "reference not found"]]]

\* The inputs main() reads, in order
NumDocuments == 3

NoFile == [types |-> EmptyMap, methods |-> <<>>]

At(at, n) == [at |-> at, n |-> n]

\* main() returns Err(..) or the process aborts: nothing more runs
Exit(how) ==
    /\ mpc' = At("exit", mpc.n)
    /\ status' = how

InitMain ==
    /\ file = NoFile /\ errs = <<>> /\ pc = "done" /\ lastKey = "" /\ used = 0
    /\ pre = NoFile /\ step = NoStep /\ result = NoResult
    /\ mpc = At("load_config", 1)
    /\ docs = <<>>
    /\ outputs = <<>>
    /\ status = "running"
    /\ fixes = NoFixes
    /\ deps = TypeDepsNew

\* let config = load_config(path)?;
LoadConfig ==
    /\ mpc.at = "load_config"
    /\ \E found \in BOOLEAN, config \in MainConfigs :
        IF found
        THEN /\ docs' = Append(docs, [config |-> config, loaded |-> FALSE, source |-> <<>>,
                                      parse_errs |-> <<>>, fix_errs |-> <<>>, file |-> NoFile])
             /\ mpc' = At("load_and_fix_document", mpc.n)
             /\ status' = status
        ELSE /\ Exit("err")
             /\ docs' = docs
    /\ UNCHANGED <<file, errs, pc, lastKey, used, pre, step, result, outputs, fixes, deps>>

\* load_and_fix_document without the `?` on the result of fix()
LoadAndFixDocumentLenient ==
    /\ mpc.at = "load_and_fix_document"
    /\ \E readable \in BOOLEAN, doc \in MainDocuments :
        LET n == mpc.n
            p == parse(doc)
            r == fix(p.file, docs[n].config)
            entry == [docs[n] EXCEPT !.loaded = TRUE, !.source = <<doc>>]
        IN  IF ~readable
            THEN Exit("err") /\ docs' = docs
            ELSE IF ~p.ok
            THEN Exit("err") /\ docs' = [docs EXCEPT ![n] = [entry EXCEPT !.parse_errs = p.errs]]
            ELSE IF r.panic
            THEN Exit("panic") /\ docs' = [docs EXCEPT ![n] = entry]
            ELSE /\ docs' = [docs EXCEPT ![n] = [entry EXCEPT !.file = r.file, !.fix_errs = r.errs]]
                 /\ mpc' = IF n < NumDocuments THEN At("load_config", n + 1) ELSE At("deps", 1)
                 /\ status' = status
    /\ UNCHANGED <<file, errs, pc, lastKey, used, pre, step, result, outputs, fixes, deps>>

\* let document = load_and_fix_document(path, &config)?;
LoadAndFixDocument ==
    /\ mpc.at = "load_and_fix_document"
    /\ \E readable \in BOOLEAN, doc \in MainDocuments :
        LET n == mpc.n
            p == parse(doc)
            r == fix(p.file, docs[n].config)
            entry == [docs[n] EXCEPT !.loaded = TRUE, !.source = <<doc>>]
        IN  IF ~readable
            THEN Exit("err") /\ docs' = docs
            ELSE IF ~p.ok
            THEN Exit("err") /\ docs' = [docs EXCEPT ![n] = [entry EXCEPT !.parse_errs = p.errs]]
            ELSE IF r.panic
            THEN Exit("panic") /\ docs' = [docs EXCEPT ![n] = entry]
            ELSE IF r.errs # <<>>
            THEN Exit("err") /\ docs' = [docs EXCEPT ![n] = [entry EXCEPT !.fix_errs = r.errs]]
            ELSE /\ docs' = [docs EXCEPT ![n] = [entry EXCEPT !.file = r.file]]
                 /\ mpc' = IF n < NumDocuments THEN At("load_config", n + 1) ELSE At("deps", 1)
                 /\ status' = status
    /\ UNCHANGED <<file, errs, pc, lastKey, used, pre, step, result, outputs, fixes, deps>>

\* The graph of the documents as parse() returned them
BuildDepsFromParsed ==
    /\ mpc.at = "deps"
    /\ deps' = MainDeps(parse(docs[1].source[1]).file, parse(docs[2].source[1]).file,
                        parse(docs[3].source[1]).file)
    /\ mpc' = At("generate", 1)
    /\ UNCHANGED <<file, errs, pc, lastKey, used, pre, step, result, docs, outputs, status, fixes>>

\* let mut deps = TypeDeps::new(); deps.add(&rpc_config, &rpc_document); ...;
\* deps.add_edge(..); deps.fix_defaults();
BuildDeps ==
    /\ mpc.at = "deps"
    /\ deps' = MainDeps(docs[1].file, docs[2].file, docs[3].file)
    /\ mpc' = At("generate", 1)
    /\ UNCHANGED <<file, errs, pc, lastKey, used, pre, step, result, docs, outputs, status, fixes>>

\* generate(&document, &config, &deps, output)?;
Generate ==
    /\ mpc.at = "generate"
    /\ \E created \in BOOLEAN, written \in BOOLEAN, formatted \in BOOLEAN :
        LET n == mpc.n IN
        IF ~created
        THEN Exit("err") /\ outputs' = outputs
        ELSE /\ outputs' = Append(outputs, [document |-> n, complete |-> written])
             /\ IF ~written \/ (docs[n].config.run_rustfmt /\ ~formatted)
                THEN Exit("err")
                ELSE IF n < NumDocuments
                THEN mpc' = At("generate", n + 1) /\ status' = status
                ELSE Exit("ok")
    /\ UNCHANGED <<file, errs, pc, lastKey, used, pre, step, result, docs, fixes, deps>>

NextMain ==
    \/ LoadConfig
    \/ LoadAndFixDocument
    \/ BuildDeps
    \/ Generate

SpecMain == InitMain /\ [][NextMain]_vars

-----------------------------------------------------------------------------
(* The passes one at a time, on the Files parse() can produce *)

MaxNameLen == 4

\* PascalCase display names over a small alphabet
NameChars == {"A", "B", "a"}

VariantNameSet ==
    { n \in SeqsUpTo(NameChars, MaxNameLen) : n # <<>> /\ is_uppercase(n[1]) }

ShortNameSet == { n \in VariantNameSet : Len(n) <= 2 }

\* One, two or three variants; a name may end with the whole name of another
\* variant (Txn, InvokeTxn)
NameLists ==
    { <<n>> : n \in ShortNameSet }
    \cup { <<n, m>> : n \in VariantNameSet, m \in VariantNameSet }
    \cup { <<n, m \o n>> : n \in { n \in VariantNameSet : Len(n) <= 3 },
                           m \in { m \in VariantNameSet : Len(m) <= 3 } }
    \cup { <<n, m, k>> : n \in ShortNameSet, m \in ShortNameSet, k \in ShortNameSet }

\* The documents of Choices, with U/type required or not, with S = allOf[T, T],
\* allOf[T, A] (an alias) and allOf[T, E] (an enum) too, with U/type an alias and
\* with the alias chain A -> B -> U, and one document with every list of variant
\* names.
UnitChoices ==
    { [a |-> al[1], b |-> al[2], v0 |-> en[1], v1 |-> en[2], s1 |-> su[1], ut |-> su[2],
       param |-> me[1], result |-> me[2], ur |-> ur, names |-> DefaultNames] :
        al \in { <<Ref("B"), Ref("T")>>, <<Ref("S"), Ref("A")>>, <<Ref("B"), Ref("A")>>,
                 <<Ref("B"), Ref("U")>> },
        en \in { <<Ref("T"), Ref("U")>>, <<Ref("S"), Ref("U")>>, <<Ref("T"), Ref("A")>> },
        su \in { <<Ref("U"), Keyword("u")>>, <<Ref("U"), StringTy>>, <<Ref("S"), Keyword("t")>>,
                 <<Ref("U/g/_anon"), Keyword("u")>>, <<Ref("T"), Keyword("u")>>,
                 <<Ref("A"), Ref("B")>>, <<Ref("E"), Keyword("u")>> },
        me \in { <<Ref("E"), NoType>>, <<Array(Array(Ref("A"))), Ref("S")>>, <<Ref("P"), NoType>> },
        ur \in BOOLEAN }
    \cup
    { [a |-> Ref("B"), b |-> Ref("T"), v0 |-> Ref("T"), v1 |-> Ref("U"), s1 |-> Ref("U"),
       ut |-> Keyword("u"), param |-> Ref("E"), result |-> NoType, ur |-> TRUE,
       names |-> names] : names \in NameLists }

UnitFiles == { ParsedFile(c) : c \in UnitChoices }

\* The fields flatten_field may be asked to flatten
UnitFlattenPaths == {"S/f0", "S/f1", "U/g", "U/type", "P/x", "Z"}

InitUnit ==
    /\ file \in UnitFiles
    /\ errs = <<>>
    /\ pc = "unit"
    /\ lastKey = ""
    /\ used = 0
    /\ pre = file
    /\ step = NoStep
    /\ result = NoResult
    /\ IdleMain

\* strip_enum_variants(file)
UnitStripEnumVariants ==
    /\ pc = "unit"
    /\ Apply(strip_enum_variants(file), "done", [NoStep EXCEPT !.op = "strip"])
    /\ UNCHANGED <<lastKey, used>>

\* flatten_field(file, path)
UnitFlattenField ==
    /\ pc = "unit"
    /\ \E path \in UnitFlattenPaths :
        Apply(flatten_field(file, path), "done",
              [NoStep EXCEPT !.op = "flatten_field", !.path = path])
    /\ UNCHANGED <<lastKey, used>>

\* flatten_one_fields(file, &mut errs)
UnitFlattenOneFields ==
    /\ pc = "unit"
    /\ Apply(flatten_one_fields(file), "done", [NoStep EXCEPT !.op = "one_fields"])
    /\ UNCHANGED <<lastKey, used>>

\* flatten_one_refs(file, &mut errs)
UnitFlattenOneRefs ==
    /\ pc = "unit"
    /\ Apply(flatten_one_refs(file), "done", [NoStep EXCEPT !.op = "one_refs"])
    /\ UNCHANGED <<lastKey, used>>

\* tag_enum(file, path, tag)
UnitTagEnum ==
    /\ pc = "unit"
    /\ \E path \in TagPaths, tag \in TagNames :
        Apply(tag_enum(file, path, tag), "done",
              [NoStep EXCEPT !.op = "tag", !.path = path, !.val = tag])
    /\ UNCHANGED <<lastKey, used>>

NextUnit ==
    \/ UnitStripEnumVariants
    \/ UnitFlattenField
    \/ UnitFlattenOneFields
    \/ UnitFlattenOneRefs
    \/ UnitTagEnum

SpecUnit == InitUnit /\ [][NextUnit]_vars

-----------------------------------------------------------------------------
(* fix() as one call, run again on its own output *)

\* Calls of fix() on the same File
MaxRuns == 2

\* Fixes with no remove, replace, rename or make_keyword entries and without
\* strip_enum_variants
FixConfigs ==
    { [NoFixes EXCEPT !.flatten = fl, !.auto_flatten_one_fields = one_fields,
                      !.auto_flatten_one_ref = one_ref, !.tagged_enums = tagged,
                      !.remove_stray_types = stray] :
        fl \in { <<>>, <<"S/f1">>, <<"U/g">>, <<"T">> },
        one_fields \in BOOLEAN, one_ref \in BOOLEAN, stray \in BOOLEAN,
        tagged \in { <<>>, << <<"E", "type">> >> } }

InitFix ==
    /\ file \in ParsedFiles
    /\ errs = <<>>
    /\ pc = "fix"
    /\ lastKey = ""
    /\ used = 0
    /\ pre = file
    /\ step = NoStep
    /\ result = NoResult
    /\ mpc = [at |-> "fix", n |-> 0] /\ docs = <<>> /\ outputs = <<>> /\ status = "running"
    /\ fixes \in FixConfigs
    /\ deps = TypeDepsNew

\* fix(&mut file, &config): the first call on the parsed File, a later call on the
\* File the previous call returned Ok(()) for
FixRun ==
    /\ pc = "fix"
    /\ used < MaxRuns
    /\ used = 0 \/ step.ok
    /\ Apply(fix(file, [fixes |-> fixes, run_rustfmt |-> FALSE]), "fix",
             [NoStep EXCEPT !.op = "fix"])
    /\ used' = used + 1
    /\ UNCHANGED lastKey

NextFix == FixRun

SpecFix == InitFix /\ [][NextFix]_vars

\* Fixes whose passes act on each other's paths: U/type made a keyword, S/f0
\* flattened, T or T/type removed, U replaced, one of them renamed, E tagged
OrderConfigs ==
    { [NoFixes EXCEPT !.make_keyword = mk, !.flatten = fl, !.remove = rm, !.replace = rp,
                      !.rename = rn, !.tagged_enums = tagged, !.remove_stray_types = stray] :
        mk \in { <<>>, << <<"U/type", "u">> >> },
        fl \in { <<>>, <<"S/f0">> },
        rm \in { <<>>, <<"T">>, <<"T/type">> },
        rp \in { <<>>, << <<"U", "ext::X">> >> },
        rn \in { <<>>, << <<"T", <<"N">> >> >>, << <<"T/type", <<"N">> >> >>, << <<"U", <<"N">> >> >> },
        tagged \in { <<>>, << <<"E", "type">> >> },
        stray \in BOOLEAN }

InitOrder ==
    /\ file \in ParsedFiles
    /\ errs = <<>> /\ pc = "fix" /\ lastKey = "" /\ used = 0
    /\ pre = file /\ step = NoStep /\ result = NoResult
    /\ mpc = [at |-> "fix", n |-> 0] /\ docs = <<>> /\ outputs = <<>> /\ status = "running"
    /\ fixes \in OrderConfigs
    /\ deps = TypeDepsNew

SpecOrder == InitOrder /\ [][NextFix]_vars

-----------------------------------------------------------------------------
(* TypeDeps on its own: edges are added, then a query is asked *)

\* The names that are added to the graph and asked about; here a name is a string
DepNames == {"A", "B", "C", "D"}

\* Edges of a graph
MaxEdges == 4

InitDeps ==
    /\ file = NoFile /\ errs = <<>> /\ pc = "deps" /\ lastKey = "" /\ used = 0
    /\ pre = NoFile /\ step = NoStep /\ result = NoResult
    /\ IdleMain

\* deps.add_edge(a, b)
AddEdge ==
    /\ pc = "deps"
    /\ Cardinality(deps.edges) < MaxEdges
    /\ \E a \in DepNames, b \in DepNames : deps' = add_edge(deps, a, b)
    /\ step' = [NoStep EXCEPT !.op = "add_edge"]
    /\ UNCHANGED <<file, errs, pc, lastKey, used, pre, result, mpc, docs, outputs, status, fixes>>

\* deps.has_path(&a, &b): &self, the graph is not changed; step.ok is the answer
HasPath ==
    /\ pc = "deps"
    /\ \E a \in DepNames, b \in DepNames :
        step' = [NoStep EXCEPT !.op = "has_path", !.path = a, !.val = b,
                               !.ok = has_path(deps, a, b)]
    /\ pc' = "done"
    /\ UNCHANGED <<file, errs, lastKey, used, pre, result, mpc, docs, outputs, status,
                   fixes, deps>>

\* deps.has_indirect_path(&a, &b)
HasIndirectPath ==
    /\ pc = "deps"
    /\ \E a \in DepNames, b \in DepNames :
        step' = [NoStep EXCEPT !.op = "has_indirect_path", !.path = a, !.val = b,
                               !.ok = has_indirect_path(deps, a, b)]
    /\ pc' = "done"
    /\ UNCHANGED <<file, errs, lastKey, used, pre, result, mpc, docs, outputs, status,
                   fixes, deps>>

NextDeps ==
    \/ AddEdge
    \/ HasPath
    \/ HasIndirectPath

SpecDeps == InitDeps /\ [][NextDeps]_vars

-----------------------------------------------------------------------------
(* The graph of one File: add(), the explicit edges of main(), then fix_defaults() *)

\* A File with three structs S, T and U and the type F, an alias of a string; c
\* chooses the type of each field and whether the field is required.
DefaultsFile(c) ==
    [methods |-> <<>>,
     types   |->
        [t \in {"A", "S", "T", "U"} |->
            CASE t = "A" -> AliasDef("A", <<"F">>, "Declared", StringTy)
              [] t = "S" -> StructDef("S", <<"S">>, "Declared",
                    [p \in {"S/f0", "S/f1"} |->
                        IF p = "S/f0" THEN StructField(p, <<"t">>, "t", c.r0, FALSE, c.s0)
                                      ELSE StructField(p, <<"u">>, "u", c.r1, FALSE, c.s1)])
              [] t = "T" -> StructDef("T", <<"T">>, "Declared",
                    [p \in {"T/type"} |-> StructField(p, <<"t", "y">>, "type", c.rt, FALSE, c.t)])
              [] t = "U" -> StructDef("U", <<"U">>, "Declared",
                    [p \in {"U/type"} |-> StructField(p, <<"t", "y">>, "type", c.ru, FALSE, c.u)])]]

DefaultsFiles ==
    { DefaultsFile([s0 |-> s0, r0 |-> r0, s1 |-> s1, r1 |-> r1, t |-> t, rt |-> rt,
                    u |-> u, ru |-> ru]) :
        s0 \in { Ref("T"), Ref("A"), IntegerTy }, s1 \in { Ref("T"), IntegerTy },
        t \in { Ref("A"), Ref("U"), StringTy }, u \in { Ref("T"), Ref("A"), Array(Ref("T")) },
        r0 \in BOOLEAN, r1 \in BOOLEAN, rt \in BOOLEAN, ru \in BOOLEAN }

\* Explicit edges added between add() and fix_defaults()
MaxExtraEdges == 1

InitDefaults ==
    /\ file \in DefaultsFiles
    /\ errs = <<>> /\ pc = "new" /\ lastKey = "" /\ used = 0
    /\ pre = file /\ step = NoStep /\ result = NoResult
    /\ IdleMain

\* deps.add(&cfg, &file)
DepsAdd ==
    /\ pc = "new"
    /\ deps' = add(deps, file)
    /\ pc' = "added"
    /\ step' = [NoStep EXCEPT !.op = "add"]
    /\ UNCHANGED <<file, errs, lastKey, used, pre, result, mpc, docs, outputs, status, fixes>>

\* deps.add_edge(name, "F") and deps.add_edge(name, "F_ImplicitDefault"), as in main()
AddExplicitEdge ==
    /\ pc = "added"
    /\ used < MaxExtraEdges
    /\ \E a \in { <<"S">>, <<"T">>, <<"U">> }, b \in { <<"F">>, <<"F_ImplicitDefault">> } :
            deps' = add_edge(deps, a, b)
    /\ used' = used + 1
    /\ step' = [NoStep EXCEPT !.op = "add_edge"]
    /\ UNCHANGED <<file, errs, pc, lastKey, pre, result, mpc, docs, outputs, status, fixes>>

\* deps.fix_defaults()
FixDefaults ==
    /\ pc = "added"
    /\ deps' = fix_defaults(deps)
    /\ pc' = "done"
    /\ step' = [NoStep EXCEPT !.op = "fix_defaults"]
    /\ UNCHANGED <<file, errs, lastKey, used, pre, result, mpc, docs, outputs, status, fixes>>

NextDefaults ==
    \/ DepsAdd
    \/ AddExplicitEdge
    \/ FixDefaults

SpecDefaults == InitDefaults /\ [][NextDefaults]_vars

-----------------------------------------------------------------------------
(* Vocabulary of the properties *)

\* Every TypeRef of a File
TypeRefsOfType(ty) ==
    { ty.fields[p].ty : p \in DOMAIN ty.fields }
    \cup { ty.variants[p].ty : p \in DOMAIN ty.variants }
    \cup (IF ty.kind = "Alias" THEN {ty.ty} ELSE {})

TypeRefsOfMethods(f) ==
    { f.methods[i].result : i \in 1..Len(f.methods) }
    \cup UNION { { f.methods[i].params[j].ty : j \in 1..Len(f.methods[i].params) } :
                 i \in 1..Len(f.methods) }

TypeRefsOf(f) == TypeRefsOfMethods(f) \cup UNION { TypeRefsOfType(f.types[t]) : t \in DOMAIN f.types }

\* The paths a set of TypeRefs refers to, directly or as array elements
Targets(refs) == { r.arg : r \in { r \in refs : r.kind = "Ref" } }

\* The entities (types, struct fields, enum variants) that carry path, as locations:
\* <<"type", t>>, <<"field", t, p>> or <<"variant", t, p>>.
Located(f, path) ==
    { <<"type", t>> : t \in { t \in DOMAIN f.types : f.types[t].path = path } }
    \cup { <<"field", t, path>> : t \in { t \in DOMAIN f.types : path \in DOMAIN f.types[t].fields } }
    \cup { <<"variant", t, path>> : t \in { t \in DOMAIN f.types : path \in DOMAIN f.types[t].variants } }

\* The step that just ran is an enabled run of pass op
Ran(op) == step.op = op /\ step.enabled /\ pc # "panic"

-----------------------------------------------------------------------------
(* C1 *)

\* Roots of the sweep: the types whose source is Method and the types the method
\* parameters and results refer to.
SweepRoots(f) ==
    { f.types[t].path : t \in { t \in DOMAIN f.types : f.types[t].source = "Method" } }
    \cup Targets(TypeRefsOfMethods(f))

\* Least set holding the roots and closed under "a type in it refers to"
RECURSIVE Closure(_, _)
Closure(f, S) ==
    LET more == S \cup UNION { Targets(TypeRefsOfType(f.types[t])) : t \in S \cap DOMAIN f.types }
    IN  IF more = S THEN S ELSE Closure(f, more)

Reachable(f) == Closure(f, SweepRoots(f))

-----------------------------------------------------------------------------
(* C2 *)

\* C2: a type listed in config.fixes.preserve that was in File.types when
\* remove_stray_types started is still there afterwards.
C2_PreserveKept ==
    Ran("stray") => \A p \in step.preserve \cap DOMAIN pre.types : p \in DOMAIN file.types

-----------------------------------------------------------------------------
(* C3 *)

\* C3: remove_stray_types deletes no type whose source is Declared (and hence only
\* Anonymous types).
C3_DeclaredKept ==
    Ran("stray") =>
        \A p \in DOMAIN pre.types \ DOMAIN file.types : pre.types[p].source = "Anonymous"

-----------------------------------------------------------------------------
(* C4 *)

\* The statements of fix() in program order
PassOrder ==
    << "strip", "make_keyword", "flatten", "one_fields", "one_refs", "remove",
       "replace", "rename", "tag", "stray", "return", "done" >>

PassIndex(p) == CHOOSE i \in 1..Len(PassOrder) : PassOrder[i] = p

\* The statement of fix() whose format!() produces an error of this kind
ErrorIndex(e) ==
    CASE e.pass = "make_keyword"     -> PassIndex("make_keyword")
      [] e.pass = "flatten"          -> PassIndex("flatten")
      [] e.pass = "flatten_one_refs" -> PassIndex("one_refs")
      [] e.pass = "remove"           -> PassIndex("remove")
      [] e.pass = "replace"          -> PassIndex("replace")
      [] e.pass = "rename"           -> PassIndex("rename")
      [] e.pass = "tag"              -> PassIndex("tag")

IsPrefix(s, t) == Len(s) <= Len(t) /\ SubSeq(t, 1, Len(s)) = s

\* Once fix() has returned: Ok exactly when no pass appended an error, and otherwise
\* the errors of all passes, in pass order.
C4_Returned ==
    pc = "done" =>
        /\ result.kind = (IF errs = <<>> THEN "Ok" ELSE "Err")
        /\ result.errs = errs
        /\ \A i, j \in 1..Len(errs) : i < j => ErrorIndex(errs[i]) <= ErrorIndex(errs[j])

\* One step of fix(): errors are only appended, and control stays in the pass or goes
\* to the very next statement, whatever errs holds (or the process aborts).
C4_Step ==
    /\ IsPrefix(errs, errs')
    /\ pc' # pc => \/ pc' = "panic"
                   \/ PassIndex(pc') = PassIndex(pc) + 1

\* C4: fix() never stops at the first error: every pass runs whatever errors the
\* earlier ones reported, the errors are returned together in pass order, and the
\* result is Ok iff no pass appended an error.
C4_ErrorsAccumulate == [](C4_Returned) /\ [][C4_Step]_vars

\* fix() returned the errors of two different passes, and the last pass still ran
\* and changed the File.
C4_Witness ==
    /\ pc = "done"
    /\ result.kind = "Err"
    /\ \E i, j \in 1..Len(errs) : ErrorIndex(errs[i]) < ErrorIndex(errs[j])
    /\ Ran("stray")
    /\ file # pre

-----------------------------------------------------------------------------
(* C6 *)

\* C6: after a successful replace of P by N, P is not in File.types and no reference
\* to P is left anywhere, directly or as the element of an array.
C6_NoRefLeft ==
    (Ran("replace") /\ step.ok) =>
        /\ step.path \notin DOMAIN file.types
        /\ step.path \notin Targets(TypeRefsOf(file))

-----------------------------------------------------------------------------
(* C7 *)

EntryOps == {"make_keyword", "remove", "replace", "rename", "tag"}

\* The path of the entry names nothing the pass could act on.
Unresolved(f, op, path) ==
    CASE op = "make_keyword" -> \A t \in DOMAIN f.types : path \notin DOMAIN f.types[t].fields
      [] op = "replace"      -> path \notin DOMAIN f.types
      [] op \in {"remove", "rename"} -> Located(f, path) = {}
      [] op = "tag"          -> FALSE

\* C7: an entry that fails (its path does not resolve; for tag-enum, tag_enum returns
\* an error) appends exactly one error, which names the entry, and leaves the File as
\* it was.
C7_FailureAtomic ==
    (step.op \in EntryOps /\ pc # "panic") =>
        /\ Unresolved(pre, step.op, step.path) => ~step.ok
        /\ ~step.ok =>
            /\ file = pre
            /\ Len(step.errs) = 1
            /\ step.errs[1].pass = step.op
            /\ step.errs[1].path = step.path
            /\ errs # <<>> /\ errs[Len(errs)] = step.errs[1]

\* A tag entry that names an existing enum failed on its preconditions, after an
\* entry of another pass had failed too.
C7_Witness ==
    /\ step.op = "tag" /\ pc # "panic" /\ ~step.ok
    /\ step.path \in DOMAIN pre.types /\ pre.types[step.path].kind = "Enum"
    /\ Len(errs) = 2 /\ errs[1].pass \in EntryOps \ {"tag"}

-----------------------------------------------------------------------------
(* C8 *)

NameAt(f, loc) ==
    CASE loc[1] = "type"    -> f.types[loc[2]].name
      [] loc[1] = "field"   -> f.types[loc[2]].fields[loc[3]].name
      [] loc[1] = "variant" -> f.types[loc[2]].variants[loc[3]].name

WithName(f, loc, n) ==
    CASE loc[1] = "type"    -> [f EXCEPT !.types[loc[2]].name = n]
      [] loc[1] = "field"   -> [f EXCEPT !.types[loc[2]].fields[loc[3]].name = n]
      [] loc[1] = "variant" -> [f EXCEPT !.types[loc[2]].variants[loc[3]].name = n]

-----------------------------------------------------------------------------
(* C9 *)

\* C9: after a successful remove of P nothing in the File carries the path P.
C9_NothingCarriesPath ==
    (Ran("remove") /\ step.ok) => Located(file, step.path) = {}

-----------------------------------------------------------------------------
(* C10 *)

\* The fields of a struct whose source name is t
Discriminants(ty, t) == { p \in DOMAIN ty.fields : ty.fields[p].name_in_json = t }

\* v's payload is a reference to a struct with exactly one field of source name t,
\* and that field is a Keyword.
CarriesKeyword(f, e, v, t) ==
    LET ty == f.types[e].variants[v].ty IN
    /\ IsRef(ty)
    /\ ty.arg \in DOMAIN f.types
    /\ f.types[ty.arg].kind = "Struct"
    /\ Cardinality(Discriminants(f.types[ty.arg], t)) = 1
    /\ \A p \in Discriminants(f.types[ty.arg], t) : IsKeyword(f.types[ty.arg].fields[p].ty)

Literal(f, e, v, t) ==
    LET s == f.types[f.types[e].variants[v].ty.arg]
    IN  s.fields[CHOOSE p \in Discriminants(s, t) : TRUE].ty.arg

\* The premise of C10 as stated
Taggable(f, e, t) ==
    /\ e \in DOMAIN f.types
    /\ f.types[e].kind = "Enum"
    /\ f.types[e].tag = Untagged
    /\ \A v \in DOMAIN f.types[e].variants : CarriesKeyword(f, e, v, t)
    /\ \A v, w \in DOMAIN f.types[e].variants :
            v # w => Literal(f, e, v, t) # Literal(f, e, w, t)

\* The search from each flatten-marked reference field of v's struct returns an error
NoCandidateBelow(f, e, v, t) ==
    LET s == f.types[f.types[e].variants[v].ty.arg] IN
    \A p \in DOMAIN s.fields :
        (s.fields[p].flatten /\ IsRef(s.fields[p].ty)) =>
            LET r == find_keyword(f, s.fields[p].ty.arg, t) IN ~r.ok /\ ~r.diverge

\* What C10 promises
TaggedBy(e, t) ==
    /\ step.ok
    /\ file.types[e].tag = Tagged(t)
    /\ \A v \in DOMAIN pre.types[e].variants :
        LET s == pre.types[e].variants[v].ty.arg IN
        /\ file.types[e].variants[v].name_in_json = << Literal(pre, e, v, t) >>
        /\ Discriminants(file.types[s], t) = {}
        /\ t \in DOMAIN file.types[s].tags
        /\ file.types[s].tags[t] = Literal(pre, e, v, t)

\* C10 as stated, in the runs where tag_enum returns
C10_AsStated ==
    (step.op = "tag" /\ pc # "panic" /\ Taggable(pre, step.path, step.val)) =>
        TaggedBy(step.path, step.val)

\* C10 (amended): tagging succeeds as described when, in addition, the search from
\* every flatten-marked reference field of each payload struct returns an error.
C10_TagSucceeds ==
    (step.op = "tag"
        /\ Taggable(pre, step.path, step.val)
        /\ \A v \in DOMAIN pre.types[step.path].variants :
                NoCandidateBelow(pre, step.path, v, step.val)) =>
        pc # "panic" /\ TaggedBy(step.path, step.val)

\* An enum with two variants was tagged, one of the structs having a flatten-marked
\* reference field
C10_Witness ==
    /\ step.op = "tag" /\ step.ok
    /\ Taggable(pre, step.path, step.val)
    /\ Cardinality(DOMAIN pre.types[step.path].variants) = 2
    /\ \E v \in DOMAIN pre.types[step.path].variants :
        LET s == pre.types[pre.types[step.path].variants[v].ty.arg] IN
        \E p \in DOMAIN s.fields : s.fields[p].flatten /\ IsRef(s.fields[p].ty)

-----------------------------------------------------------------------------
(* C5 *)

\* Document n was read, parsed and fixed without a single error
Clean(n) ==
    /\ n <= Len(docs)
    /\ docs[n].loaded
    /\ \A doc \in Range(docs[n].source) :
        /\ parse(doc).ok
        /\ LET r == fix(parse(doc).file, docs[n].config)
           IN  ~r.panic /\ r.errs = <<>> /\ docs[n].file = r.file

\* Parse or fix of document n returned errors
Dirty(n) ==
    /\ n <= Len(docs)
    /\ \E doc \in Range(docs[n].source) :
        \/ ~parse(doc).ok
        \/ fix(parse(doc).file, docs[n].config).errs # <<>>

\* C5: a generate step runs, and an output file exists, only when every one of the
\* documents was parsed and fixed with zero errors; when parse or fix of a document
\* returned errors, main() has returned Err with no output file and no generate step.
C5_NoPartialOutput ==
    /\ (mpc.at = "generate" \/ outputs # <<>>) => \A n \in 1..NumDocuments : Clean(n)
    /\ (\E n \in 1..NumDocuments : Dirty(n)) =>
            outputs = <<>> /\ mpc.at = "exit" /\ status = "err"

\* All three output files were written, the second document having needed a fix
C5_Witness ==
    /\ status = "ok"
    /\ Len(outputs) = NumDocuments
    /\ \A n \in 1..NumDocuments : Clean(n)
    /\ docs[2].file # parse(docs[2].source[1]).file

-----------------------------------------------------------------------------
(* C11 *)

\* The enum of the step has two variants, each a reference to a struct with one
\* field of source name t, and the two fields differ in required-ness.
RequiredDiffers(f, e, t) ==
    /\ e \in DOMAIN f.types
    /\ f.types[e].kind = "Enum"
    /\ f.types[e].tag = Untagged
    /\ Cardinality(DOMAIN f.types[e].variants) = 2
    /\ \A v \in DOMAIN f.types[e].variants :
        LET ty == f.types[e].variants[v].ty IN
        /\ IsRef(ty) /\ ty.arg \in DOMAIN f.types /\ f.types[ty.arg].kind = "Struct"
        /\ Cardinality(Discriminants(f.types[ty.arg], t)) = 1
    /\ \E v, w \in DOMAIN f.types[e].variants :
        LET s1 == f.types[f.types[e].variants[v].ty.arg]
            s2 == f.types[f.types[e].variants[w].ty.arg]
        IN  \E p \in Discriminants(s1, t), q \in Discriminants(s2, t) :
                s1.fields[p].required /\ ~s2.fields[q].required

\* C11: tagging a 2-variant untagged enum whose two payload structs carry the
\* discriminant field with different required-ness returns an error and leaves the
\* enum Untagged.
C11_RequirednessRejected ==
    (step.op = "tag" /\ RequiredDiffers(pre, step.path, step.val)) =>
        ~step.ok /\ file.types[step.path].tag = Untagged

-----------------------------------------------------------------------------
(* C12 *)

Min(S) == CHOOSE x \in S : \A y \in S : x <= y
Max(S) == CHOOSE x \in S : \A y \in S : x >= y

\* The first k characters of name end on a word boundary: a transition from
\* non-uppercase to uppercase, or an end of the string.
PrefixAligned(name, k) ==
    \/ k = 0
    \/ k = Len(name)
    \/ k < Len(name) /\ ~is_uppercase(name[k]) /\ is_uppercase(name[k + 1])

\* The last k characters of name start on a word boundary
SuffixAligned(name, k) == PrefixAligned(name, Len(name) - k)

\* Length of the longest common word-aligned prefix (suffix) of a set of names
AlignedPrefixLen(names) ==
    Max({ k \in 0..Min({ Len(n) : n \in names }) :
            /\ \A n, m \in names : SubSeq(n, 1, k) = SubSeq(m, 1, k)
            /\ \A n \in names : PrefixAligned(n, k) })

AlignedSuffixLen(names) ==
    Max({ k \in 0..Min({ Len(n) : n \in names }) :
            /\ \A n, m \in names : SubSeq(n, Len(n) - k + 1, Len(n)) = SubSeq(m, Len(m) - k + 1, Len(m))
            /\ \A n \in names : SuffixAligned(n, k) })

\* What C12 promises of one enum
Stripped(before, after) ==
    LET names == { before[v].name : v \in DOMAIN before }
        cp == AlignedPrefixLen(names)
        cs == AlignedSuffixLen(names)
    IN  IF Cardinality(DOMAIN before) <= 1 \/ cp = cs
        THEN after = before
        ELSE /\ DOMAIN after = DOMAIN before
             /\ \A v \in DOMAIN before :
                    /\ cp + cs <= Len(before[v].name)
                    /\ after[v] = [before[v] EXCEPT !.name = SubSeq(@, cp + 1, Len(@) - cs)]

\* C12: strip_enum_variants removes from every variant name of every enum with more
\* than one variant the longest common word-aligned prefix and suffix of the names,
\* changes no name when the two have the same length, and never changes an enum with
\* at most one variant.
C12_StripsCommonWords ==
    step.op = "strip" =>
        /\ pc # "panic"
        /\ DOMAIN file.types = DOMAIN pre.types
        /\ \A t \in DOMAIN pre.types :
            IF pre.types[t].kind = "Enum"
            THEN Stripped(pre.types[t].variants, file.types[t].variants)
            ELSE file.types[t] = pre.types[t]

(* C13 *)

\* C13: with remove_stray_types and both auto-flatten flags enabled, a second run of
\* fix() on the File a first run produced changes nothing in the File.
C13_FixedPoint ==
    (/\ step.op = "fix" /\ used = 2
     /\ fixes.remove_stray_types /\ fixes.auto_flatten_one_fields /\ fixes.auto_flatten_one_ref)
        => pc # "panic" /\ file = pre

(* C14 *)

\* The test of the first loop of flatten_one_fields on field p of struct s
OneFieldCandidate(f, s, p) ==
    LET field == f.types[s].fields[p] IN
    /\ field.flatten
    /\ IsRef(field.ty)
    /\ field.ty.arg \in DOMAIN f.types
    /\ f.types[field.ty.arg].kind = "Struct"
    /\ Cardinality(DOMAIN f.types[field.ty.arg].fields) = 1

\* What C14 promises of struct s and its flattened field p
FlattenedInPlace(s, p) ==
    LET t      == pre.types[s].fields[p].ty.arg
        g      == CHOOSE g \in DOMAIN pre.types[t].fields : TRUE
        before == pre.types[s].fields
        after  == file.types[s].fields
    IN  /\ pc # "panic"
        /\ p \notin DOMAIN after
        /\ g \in DOMAIN after
        /\ after[g].ty = pre.types[t].fields[g].ty
        /\ after[g].documentation = pre.types[t].fields[g].documentation
        /\ Cardinality(DOMAIN after) = Cardinality(DOMAIN before)
        /\ \A q \in DOMAIN before :
                ~OneFieldCandidate(pre, s, q) => q \in DOMAIN after /\ after[q] = before[q]
        /\ file.types[t] = pre.types[t]

\* C14: when flatten_one_fields flattens a flatten-marked field of struct S whose
\* target struct T has exactly one field G, S loses the field and gains one field
\* with G's type and documentation, so that S has as many fields as before; the
\* other fields of S and T itself are unchanged.
C14_FieldCountKept ==
    step.op = "one_fields" =>
        \A s \in DOMAIN pre.types : \A p \in DOMAIN pre.types[s].fields :
            OneFieldCandidate(pre, s, p) => FlattenedInPlace(s, p)

(* C17 *)

\* C17: in every state of a run of fix() that did not abort, every path names at most
\* one type, struct field or enum variant of the File; in particular no struct-field
\* path occurs in two structs.
C17_PathsUnique ==
    pc # "panic" => \A p \in Paths : Cardinality(Located(file, p)) <= 1

(* C18 *)

\* The graph main() would build from the Files parse() returned for the documents
DepsOfParsed ==
    MainDeps(parse(docs[1].source[1]).file, parse(docs[2].source[1]).file,
             parse(docs[3].source[1]).file)

\* The graph main() would build from the Files fix() left
DepsOfFixed == MainDeps(docs[1].file, docs[2].file, docs[3].file)

Walk(d, a, b, n) ==
    \E p \in [0..n -> d.nodes] :
        /\ p[0] = a /\ p[n] = b
        /\ \A i \in 0..(n - 1) : <<p[i], p[i + 1]>> \in d.edges

\* b is reachable from a along directed edges
Connected(d, a, b) == \E n \in 1..Cardinality(d.nodes) : Walk(d, a, b, n)

\* C15: has_path(a, b) is false when a = b and when a or b is not a node; for two
\* distinct nodes it is true exactly when b is reachable from a along directed
\* edges; the query leaves the graph as it is.
C15_HasPath ==
    [][step'.op = "has_path" =>
        /\ deps' = deps
        /\ step'.ok = (/\ step'.path # step'.val
                       /\ step'.path \in deps.nodes /\ step'.val \in deps.nodes
                       /\ Connected(deps, step'.path, step'.val))]_vars

\* has_path found a path that is not a single edge
C15_Witness ==
    /\ step.op = "has_path" /\ step.ok
    /\ <<step.path, step.val>> \notin deps.edges

(* C16 *)

\* A directed path from a to b through n >= 1 intermediate nodes, which are distinct
\* and different from a and b
PathThrough(d, a, b, n) ==
    \E p \in [0..(n + 1) -> d.nodes] :
        /\ p[0] = a /\ p[n + 1] = b
        /\ \A i \in 0..n : <<p[i], p[i + 1]>> \in d.edges
        /\ \A i \in 1..n : p[i] \notin {a, b}
        /\ \A i, j \in 1..n : i # j => p[i] # p[j]

IndirectlyConnected(d, a, b) ==
    /\ a \in d.nodes /\ b \in d.nodes
    /\ \E n \in 1..Cardinality(d.nodes) : PathThrough(d, a, b, n)

\* C16: has_indirect_path(a, b) is true exactly when the graph has a directed path
\* from a to b with at least one intermediate node; a direct edge alone does not
\* count, and it is false when a or b is not a node.
C16_HasIndirectPath ==
    step.op = "has_indirect_path" =>
        step.ok = IndirectlyConnected(deps, step.path, step.val)

(* C19 *)

\* Every Ref in a struct field, variant payload, alias, method parameter or method
\* result of f names a type of f
RefsResolve(f) == Targets(TypeRefsOf(f)) \subseteq DOMAIN f.types

HolderOf(p) == CHOOSE s \in DOMAIN pre.types : p \in DOMAIN pre.types[s].fields

\* flatten_field returned an error and left the File as it was
FlattenRefused == ~step.ok /\ pc # "panic" /\ file = pre

\* C20: flatten_field on a field F that refers to a type T: if T is an alias, F stays
\* and takes the alias's type; if T is a struct and F is flatten-marked, F leaves its
\* parent, T's fields are inserted into the parent and T is unchanged; if T is a
\* struct and F is not flatten-marked, or T is an enum, or F's type is not a
\* reference, an error is returned and the File is unchanged.
C20_FlattenByKind ==
    (step.op = "flatten_field" /\ \E s \in DOMAIN pre.types : step.path \in DOMAIN pre.types[s].fields) =>
        LET p == step.path
            s == HolderOf(p)
            F == pre.types[s].fields[p]
            T == pre.types[F.ty.arg]
        IN  IF ~IsRef(F.ty) THEN FlattenRefused
            ELSE CASE T.kind = "Alias" ->
                        /\ step.ok
                        /\ file = SetTypes(pre, [pre.types EXCEPT ![s].fields[p].ty = T.ty])
                   [] T.kind = "Struct" /\ F.flatten ->
                        /\ step.ok
                        /\ p \notin DOMAIN file.types[s].fields
                        /\ \A g \in DOMAIN T.fields :
                                /\ g \in DOMAIN file.types[s].fields
                                /\ file.types[s].fields[g] = T.fields[g]
                        /\ file.types[F.ty.arg] = T
                   [] T.kind = "Struct" /\ ~F.flatten -> FlattenRefused
                   [] T.kind = "Enum" -> FlattenRefused

(* C21 *)

\* The File as the field loop of flatten_one_refs leaves it
AfterFieldLoop(f) == FlattenAll(f, OneRefFields(f), <<>>).file

\* Alias a of pre now holds the definition of its target, under its own path and name
MergedInPlace(a) ==
    LET t   == pre.types[a].ty.arg
        mid == AfterFieldLoop(pre).types
    IN  /\ t \in DOMAIN mid
        /\ a \in DOMAIN file.types
        /\ file.types[a] = [mid[t] EXCEPT !.path = pre.types[a].path,
                                          !.name = pre.types[a].name]
        /\ t \notin DOMAIN file.types

\* C21: after flatten_one_refs, every alias A whose target is a direct reference to a
\* type T referenced from exactly one place holds T's definition under A's path with
\* A's display name, T's path is gone from File.types, and A's path still resolves.
C21_AliasMergedInPlace ==
    (step.op = "one_refs" /\ pc # "panic") =>
        \A a \in Range(OneRefAliases(pre)) : MergedInPlace(a)

(* C22 *)

\* The default-capable root and the node derived from it
DefaultRoot     == <<"F">>
ImplicitDefault == <<"F_ImplicitDefault">>

\* b is in every set of nodes that holds a and is closed under the edges of d
ReachableFrom(d, a, b) ==
    \A R \in SUBSET (d.nodes \cup {a, b}) :
        (a \in R /\ \A e \in d.edges : e[1] \in R => e[2] \in R) => b \in R

\* n has an edge into the maybe-implicit-default node and an edge to a target, other
\* than the root, that has an edge into the optional node and reaches the root
NeedsImplicitDefault(d, n) ==
    /\ <<n, MaybeImplicitDefault>> \in d.edges
    /\ \E e \in d.edges :
        /\ e[1] = n
        /\ <<e[2], Optional>> \in d.edges
        /\ e[2] # DefaultRoot
        /\ ReachableFrom(d, e[2], DefaultRoot)

\* C22: fix_defaults adds the edge from N to the implicit-default node exactly for the
\* nodes N that have an edge into the maybe-implicit-default node and an outgoing edge
\* to a target T, not the default-capable root, with an edge into the optional node
\* and from which the root is reachable; it adds no other edge and removes none.
C22_FixDefaultsExact ==
    [][step'.op = "fix_defaults" =>
        deps'.edges = deps.edges
            \cup { <<n, ImplicitDefault>> : n \in { n \in deps.nodes : NeedsImplicitDefault(deps, n) } }]_vars

\* fix_defaults has marked one node and left another, which has an optional field of
\* the root's own type, unmarked
C22_Witness ==
    /\ step.op = "fix_defaults"
    /\ \E n \in deps.nodes : NeedsImplicitDefault(deps, n) /\ <<n, ImplicitDefault>> \in deps.edges
    /\ \E n \in deps.nodes :
        /\ <<n, MaybeImplicitDefault>> \in deps.edges
        /\ <<n, DefaultRoot>> \in deps.edges
        /\ <<DefaultRoot, Optional>> \in deps.edges
        /\ <<n, ImplicitDefault>> \notin deps.edges

(* C23 *)

\* Type t of File f has a non-required field whose value type is not the root and
\* reaches the root in d
OwnOptionalNeedsDefault(f, d, t) ==
    \E p \in DOMAIN f.types[t].fields :
        LET field == f.types[t].fields[p]
            value == lift_out(f, field.ty)
        IN  /\ ~field.required
            /\ value # DefaultRoot
            /\ ReachableFrom(d, value, DefaultRoot)

\* C23: in the graph that add() builds from a File and fix_defaults completes, a type
\* has an edge to the implicit-default node only if one of its own non-required
\* fields has a value type, other than the default-capable root, from which the root
\* is reachable.
C23_MarkedByOwnOptionalField ==
    (step.op = "fix_defaults" /\ used = 0) =>
        \A t \in DOMAIN file.types :
            <<file.types[t].name, ImplicitDefault>> \in deps.edges
                => OwnOptionalNeedsDefault(file, deps, t)

(* C24 *)

\* The types the discriminant search visits from path p: p itself, the targets of the
\* flatten-marked fields of the structs among them and the targets of the aliases
\* among them
SearchStep(f, S) ==
    S \cup { q \in DOMAIN f.types : \E t \in S :
                \/ /\ f.types[t].kind = "Struct"
                   /\ \E k \in DOMAIN f.types[t].fields :
                        f.types[t].fields[k].flatten /\ f.types[t].fields[k].ty = Ref(q)
                \/ f.types[t].kind = "Alias" /\ f.types[t].ty = Ref(q) }

RECURSIVE SearchedTypes(_, _)
SearchedTypes(f, S) == IF SearchStep(f, S) = S THEN S ELSE SearchedTypes(f, SearchStep(f, S))

\* The fields with source name t that the search from payload p contains
CandidateFields(f, p, t) ==
    { tk \in { <<s, k>> : s \in SearchedTypes(f, {p} \cap DOMAIN f.types), k \in Paths } :
        /\ f.types[tk[1]].kind = "Struct"
        /\ tk[2] \in DOMAIN f.types[tk[1]].fields
        /\ f.types[tk[1]].fields[tk[2]].name_in_json = t }

\* The search of some variant of enum e contains more than one field named t
Ambiguous(f, e, t) ==
    \E v \in DOMAIN f.types[e].variants :
        /\ IsRef(f.types[e].variants[v].ty)
        /\ Cardinality(CandidateFields(f, f.types[e].variants[v].ty.arg, t)) > 1

\* C24: when the search for the discriminant of some variant's payload contains more
\* than one field whose source name is the discriminant name, whatever their types,
\* tag_enum returns an error and leaves the File as it was.
C24_AmbiguityRejected ==
    (/\ step.op = "tag" /\ pc # "panic"
     /\ step.path \in DOMAIN pre.types
     /\ pre.types[step.path].kind = "Enum"
     /\ Ambiguous(pre, step.path, step.val))
        => ~step.ok /\ file = pre

(* C25 *)

\* The first (last) word of a name: up to its first (from its last) word boundary
FirstWord(name) ==
    SubSeq(name, 1, Min({ k \in 1..Len(name) : PrefixAligned(name, k) }))

LastWord(name) ==
    SubSeq(name, Len(name) - Min({ k \in 1..Len(name) : SuffixAligned(name, k) }) + 1, Len(name))

\* r is a prefix of every name and ends on a word boundary in every name; it is empty
\* when two names differ in their first word
WholeWordPrefix(names, r) ==
    /\ \A i \in 1..Len(names) : starts_with(names[i], r) /\ PrefixAligned(names[i], Len(r))
    /\ (\E i, j \in 1..Len(names) : FirstWord(names[i]) # FirstWord(names[j])) => r = <<>>

WholeWordSuffix(names, r) ==
    /\ \A i \in 1..Len(names) : ends_with(names[i], r) /\ SuffixAligned(names[i], Len(r))
    /\ (\E i, j \in 1..Len(names) : LastWord(names[i]) # LastWord(names[j])) => r = <<>>

\* C25: common_prefix (common_suffix) of the variant names of an enum is a prefix
\* (suffix) of every name whose end (start) falls on a word boundary in every name,
\* and it is empty when the names disagree on their first (last) word or when there
\* is no name.
C25_WholeWords ==
    step.op = "strip" =>
        /\ common_prefix(<<>>) = <<>> /\ common_suffix(<<>>) = <<>>
        /\ \A t \in DOMAIN pre.types :
            (pre.types[t].kind = "Enum" /\ Cardinality(DOMAIN pre.types[t].variants) > 1) =>
                LET names == VariantNames(pre.types[t].variants) IN
                /\ WholeWordPrefix(names, common_prefix(names))
                /\ WholeWordSuffix(names, common_suffix(names))

(* C26 *)

\* The errors of a pass about a path
ErrorsOf(pass, path) == { i \in 1..Len(errs) : errs[i].pass = pass /\ errs[i].path = path }

\* The File once the make_keyword entries of the configuration are applied
Keyworded(f) == make_keywords(Done(f), fixes.make_keyword).file

\* make-keyword before tag-enums: an enum that is taggable only thanks to a field
\* that make_keyword turned into a Keyword is tagged by the same run
C26_KeywordThenTag ==
    (/\ fixes.make_keyword # <<>> /\ fixes.tagged_enums # <<>>
     /\ fixes.flatten = <<>> /\ fixes.remove = <<>> /\ fixes.replace = <<>>
     /\ ~Taggable(pre, "E", "type")
     /\ Taggable(Keyworded(pre), "E", "type")
     /\ \A v \in DOMAIN pre.types["E"].variants : NoCandidateBelow(Keyworded(pre), "E", v, "type"))
        => /\ ErrorsOf("tag", "E") = {}
           /\ "E" \in DOMAIN file.types => file.types["E"].tag = Tagged("type")

\* remove and replace before rename: renaming a path that remove or replace deleted
\* earlier in the run reports an error
C26_DeleteThenRename ==
    \A i \in 1..Len(fixes.rename) :
        LET p == fixes.rename[i][1] IN
        (\/ p \in Range(fixes.remove) /\ ErrorsOf("remove", p) = {}
         \/ \E k \in 1..Len(fixes.replace) : fixes.replace[k][1] = p /\ ErrorsOf("replace", p) = {})
            => ErrorsOf("rename", p) # {}

\* remove-stray-types last: no type that the run left unreachable is still there
C26_StrayLast == fixes.remove_stray_types => DOMAIN file.types \subseteq Reachable(file)

\* C26: the passes of one run of fix() act in the order make-keyword, flatten, remove,
\* replace, rename, tag-enums, remove-stray-types, each on the File the earlier ones
\* left: a field made a Keyword by make-keyword is accepted as discriminant by
\* tag-enums, a rename of a path deleted by remove or replace reports an error, and
\* stray-type removal leaves no type that an earlier pass made unreachable.
C26_PassesInOrder ==
    (step.op = "fix" /\ used = 1 /\ pc # "panic") =>
        /\ C26_KeywordThenTag
        /\ C26_DeleteThenRename
        /\ C26_StrayLast

(* C27 *)

\* C27: on a File in which every reference resolves flatten_one_refs does not abort:
\* every alias it selected is still in File.types when its turn comes, chains of
\* aliases included.
C27_OneRefsNeverAborts ==
    (step.op = "one_refs" /\ RefsResolve(pre)) => pc # "panic"

(* C28 *)

\* C28: strip_enum_variants does not abort; for every enum with more than one variant
\* whose names are cut, the length of the common prefix plus the length of the common
\* suffix of the variant names does not exceed the length of any of the names, and
\* no variant name of such an enum is empty afterwards.
C28_StripTotal ==
    step.op = "strip" =>
        /\ pc # "panic"
        /\ \A t \in DOMAIN pre.types :
            (pre.types[t].kind = "Enum" /\ Cardinality(DOMAIN pre.types[t].variants) > 1) =>
                LET names == VariantNames(pre.types[t].variants)
                    cp    == Len(common_prefix(names))
                    cs    == Len(common_suffix(names))
                IN  \A v \in DOMAIN pre.types[t].variants :
                        /\ cp # cs => cp + cs <= Len(pre.types[t].variants[v].name)
                        /\ file.types[t].variants[v].name # <<>>

(* C29 *)

\* C29: tag_enum returns, with a result or with an error, on every File, the Files
\* whose types are cyclic through flatten-marked fields, aliases or variant payloads
\* included.
C29_SearchTerminates == step.op = "tag" => pc # "panic"

(* C30 *)

\* C30: when tag_enum succeeds, the discriminant values it gives to the variants of
\* the enum (their source names) are pairwise distinct.
C30_DiscriminantsDistinct ==
    (step.op = "tag" /\ step.ok) =>
        \A v, w \in DOMAIN file.types[step.path].variants :
            v # w => file.types[step.path].variants[v].name_in_json
                        # file.types[step.path].variants[w].name_in_json

====
